---- MODULE Spec2Model ----
(***************************************************************************)
(* A model of textual: font resolution and caching (FontProvider and       *)
(* FontCache behind a tokio RwLock) and the RGBA compositing of Image.     *)
(*                                                                         *)
(* Spec      the font resolver shared by concurrent requests.  Init picks  *)
(*           which binary runs: "textual" (src/src, Text::get_font) or     *)
(*           "backend" (src/fastly-backend, the fonts handler).            *)
(* SpecImage the Image operations applied to bounded inputs.               *)
(*                                                                         *)
(* Strings that the code splits or parses (file names, family names) are   *)
(* sequences of tokens: the delimiters "-" and " ", an extension such as   *)
(* ".ttf", and words that hold no delimiter.                               *)
(***************************************************************************)
EXTENDS Integers, Sequences, FiniteSets, TLC

VARIABLES
    binary,       \* which program runs: "textual" or "backend"
    font_cache,   \* FontCache.fonts: the in-memory index, a Vec<FontFamily>
    disk,         \* the cache directory: file name -> content
    readers,      \* requests holding the RwLock in read mode
    writer,       \* the request holding the RwLock in write mode, or None
    pc,           \* each request's position
    asked,        \* each request's (font, variant)
    buffer,       \* each request's fetched bytes (the local `buffer`)
    result,       \* what each request got back
    fetches,      \* per (family, variant): ureq::get calls made so far
    failures,     \* per (family, variant): fetches that failed (.fetch), and
                  \* fetched bytes never indexed (.save): File::create or
                  \* write_all failed, or the process died inside save_font
    fetchedBy,    \* per request: ureq::get calls it made
    found,        \* per request: what FontProvider::variant's lookup found
    indexAtSave,  \* per request: font_cache as save_font was entered
    saveFailed,   \* per request: File::create or write_all returned Err
    served,       \* per (family, variant): "yes" once a resolve that missed the
                  \* cache has fetched, saved and returned it; "failed" while
                  \* such resolves have only panicked; else "no"
    afterServed,  \* per request: `served` of its font as the request began
    crashes,      \* process restarts so far
    image,        \* SpecImage: the destination Image
    before,       \* SpecImage: the destination as the last operation began
    op,           \* SpecImage: the last operation and its arguments
    call,         \* SpecCalls: the function last called, with its arguments
    ret           \* SpecCalls: what that call returned

resolverVars == <<binary, font_cache, disk, readers, writer, pc, asked, buffer,
                  result, fetches, failures, fetchedBy, found, indexAtSave,
                  saveFailed, served, afterServed, crashes>>
imageVars == <<image, before, op>>
callVars == <<call, ret>>
vars == <<resolverVars, imageVars, callVars>>

\* Option<T>: None, or Some(x) holding x.
None == <<>>
Some(x) == <<x>>
unwrap(o) == o[1]

(***************************************************************************)
(* Bounds of the model.                                                    *)
(***************************************************************************)
NumRequests == 2
MaxCrashes == 1
MaxDim == 2

Requests == 1..NumRequests

(***************************************************************************)
(* FontWeight, FontStyle, FontVariant and their Display / FromStr.         *)
(***************************************************************************)
FontWeight == {"Thin", "ExtraLight", "Light", "Regular", "Medium", "SemiBold",
               "Bold", "ExtraBold", "Black", "ExtraBlack"}
FontStyle == {"Normal", "Italic", "Oblique"}

FontVariant_new(weight, style) == [weight |-> weight, style |-> style]
FontVariant_default == FontVariant_new("Regular", "Normal")

FontStyle_fmt(style) ==
    CASE style = "Normal" -> "normal"
      [] style = "Italic" -> "italic"
      [] style = "Oblique" -> "oblique"

\* FontWeight_fmt with Regular written under its other name, "book".
FontWeight_fmt_book(weight) ==
    CASE weight = "Thin" -> "thin"
      [] weight = "ExtraLight" -> "extralight"
      [] weight = "Light" -> "light"
      [] weight = "Regular" -> "book"
      [] weight = "Medium" -> "medium"
      [] weight = "SemiBold" -> "semibold"
      [] weight = "Bold" -> "bold"
      [] weight = "ExtraBold" -> "extrabold"
      [] weight = "Black" -> "black"
      [] weight = "ExtraBlack" -> "extrablack"

FontWeight_fmt(weight) ==
    CASE weight = "Thin" -> "thin"
      [] weight = "ExtraLight" -> "extralight"
      [] weight = "Light" -> "light"
      [] weight = "Regular" -> "regular"
      [] weight = "Medium" -> "medium"
      [] weight = "SemiBold" -> "semibold"
      [] weight = "Bold" -> "bold"
      [] weight = "ExtraBold" -> "extrabold"
      [] weight = "Black" -> "black"
      [] weight = "ExtraBlack" -> "extrablack"

\* str::to_lowercase on one word; the words of the model that hold capitals.
to_lowercase(word) ==
    CASE word = "Bold" -> "bold"
      [] word = "BOLD" -> "bold"
      [] word = "Regular" -> "regular"
      [] word = "Italic" -> "italic"
      [] word = "ITALIC" -> "italic"
      [] word = "Normal" -> "normal"
      [] word = "Thin" -> "thin"
      [] word = "NORMAL" -> "normal"
      [] word = "Oblique" -> "oblique"
      [] word = "OBLIQUE" -> "oblique"
      [] word = "Heavy" -> "heavy"
      [] word = "Extra" -> "extra"
      [] OTHER -> word

lowercase(s) == [i \in 1..Len(s) |-> to_lowercase(s[i])]

\* FontStyle::from_str: an exact match, no lowercasing.
FontStyle_from_str(s) ==
    IF s = <<"normal">> THEN "Normal"
    ELSE IF s = <<"italic">> THEN "Italic"
    ELSE IF s = <<"oblique">> THEN "Oblique"
    ELSE "Err"

\* FontWeight::from_str: match on s.to_lowercase().
FontWeight_from_str(s) ==
    LET l == lowercase(s) IN
    IF l \in {<<"thin">>, <<"100">>} THEN "Thin"
    ELSE IF l \in {<<"extralight">>, <<"extra", "-", "light">>, <<"ultralight">>,
                   <<"ultra", "-", "light">>, <<"200">>} THEN "ExtraLight"
    ELSE IF l \in {<<"light">>, <<"300">>} THEN "Light"
    ELSE IF l \in {<<"normal">>, <<"regular">>, <<"400">>} THEN "Regular"
    ELSE IF l \in {<<"medium">>, <<"500">>} THEN "Medium"
    ELSE IF l \in {<<"semibold">>, <<"semi", "-", "bold">>, <<"demibold">>,
                   <<"demi", "-", "bold">>, <<"600">>} THEN "SemiBold"
    ELSE IF l \in {<<"bold">>, <<"700">>} THEN "Bold"
    ELSE IF l \in {<<"extrabold">>, <<"extra", "-", "bold">>, <<"ultrabold">>,
                   <<"ultra", "-", "bold">>, <<"800">>} THEN "ExtraBold"
    ELSE IF l \in {<<"black">>, <<"heavy">>, <<"900">>} THEN "Black"
    ELSE IF l \in {<<"extrablack">>, <<"extra", "-", "black">>, <<"ultrablack">>,
                   <<"ultra", "-", "black">>, <<"950">>} THEN "ExtraBlack"
    ELSE "Err"

FontVariants == {FontVariant_new(w, st) : w \in FontWeight, st \in FontStyle}

\* Display for FontVariant: write!(f, "{} {}", self.weight, self.style)
FontVariant_fmt(variant) ==
    <<FontWeight_fmt(variant.weight), " ", FontStyle_fmt(variant.style)>>

\* How the code reads a variant back (FontCache::populate): split_once(' '),
\* then style.parse() and weight.parse(); None when any of the three fails.
FontVariant_parse(var) ==
    LET at == {i \in 1..Len(var) : var[i] = " "}
        space == IF at = {} THEN 0 ELSE CHOOSE i \in at : \A j \in at : i <= j
        weight == FontWeight_from_str(SubSeq(var, 1, space - 1))
        style == FontStyle_from_str(SubSeq(var, space + 1, Len(var)))
    IN  IF space = 0 THEN None
        ELSE IF style = "Err" THEN None
        ELSE IF weight = "Err" THEN None
        ELSE Some(FontVariant_new(weight, style))

(***************************************************************************)
(* FontFamily: a face and its Vec<(FontVariant, String)>.                  *)
(***************************************************************************)
FontFamily_new(face) == [face |-> face, variants |-> <<>>]

FontFamily_push(fam, variant, path) ==
    [fam EXCEPT !.variants = Append(@, <<variant, path>>)]

\* Some(path) of the first (variant, path) whose variant matches, else None.
FontFamily_variant_path(fam, variant) ==
    LET hits == {i \in 1..Len(fam.variants) : fam.variants[i][1] = variant} IN
    IF hits = {} THEN None
    ELSE Some(fam.variants[CHOOSE i \in hits : \A j \in hits : i <= j][2])

\* The index of the first family whose face is `name`, 0 when there is none.
family_index(fonts, name) ==
    LET hits == {i \in 1..Len(fonts) : fonts[i].face = name} IN
    IF hits = {} THEN 0 ELSE CHOOSE i \in hits : \A j \in hits : i <= j

\* FontCache::family / FontProvider::family.
family(fonts, name) ==
    IF family_index(fonts, name) = 0 THEN None
    ELSE Some(fonts[family_index(fonts, name)])

\* index_push with the new family appended before its variant was pushed.
index_push_empty_family(fonts, name, variant, path) ==
    LET i == family_index(fonts, name) IN
    IF i # 0 THEN [fonts EXCEPT ![i] = FontFamily_push(@, variant, path)]
    ELSE Append(fonts, FontFamily_new(name))

\* index_push that never looks for the family: a new record for every font.
index_push_new_family(fonts, name, variant, path) ==
    Append(fonts, FontFamily_push(FontFamily_new(name), variant, path))

\* The tail of save_font and of populate: push onto the family found by
\* family_mut, or onto a new family appended to the Vec.
index_push(fonts, name, variant, path) ==
    LET i == family_index(fonts, name) IN
    IF i # 0 THEN [fonts EXCEPT ![i] = FontFamily_push(@, variant, path)]
    ELSE Append(fonts, FontFamily_push(FontFamily_new(name), variant, path))

(***************************************************************************)
(* The remote side: the catalog read once from Google Fonts, and the bytes *)
(* a URL serves.                                                           *)
(***************************************************************************)
Lato == <<"Lato">>
Nope == <<"Nope">>
BoldItalic == FontVariant_new("Bold", "Italic")
ThinNormal == FontVariant_new("Thin", "Normal")

\* FontProvider.fonts as get_fonts_from_google returns it: URLs, not paths.
GoogleFonts ==
    << [face |-> Lato,
        variants |-> << <<FontVariant_default, "https://fonts/lato-regular">>,
                        <<BoldItalic, "https://fonts/lato-700italic">> >>] >>

\* What a request may ask for: Text.font (None: no font parameter) and
\* Text::font_variant().
Asked ==
    { [font |-> None, variant |-> FontVariant_default],
      [font |-> Some(Lato), variant |-> FontVariant_default],
      [font |-> Some(Lato), variant |-> BoldItalic],
      [font |-> Some(Lato), variant |-> ThinNormal],
      [font |-> Some(Nope), variant |-> FontVariant_default] }

Keys == {<<unwrap(a.font), a.variant>> : a \in {x \in Asked : x.font # None}}

\* The body of a successful GET of `url`.
remote(url) == <<"font at", url>>
\* What a file holds between File::create and the end of write_all.
Truncated == <<"truncated", "">>

File(bytes) == [kind |-> "file", bytes |-> bytes]
Dir == [kind |-> "dir"]

\* fontster::parse_font(..).unwrap(): Ok only for a whole font file.
parse_font_ok(bytes) ==
    \E i \in 1..Len(GoogleFonts) : \E j \in 1..Len(GoogleFonts[i].variants) :
        bytes = remote(GoogleFonts[i].variants[j][2])

(***************************************************************************)
(* FontCache: file names, populate, variant.                               *)
(***************************************************************************)
Extensions == {".ttf", ".otf"}

\* format!("{}-{} {}.ttf", family, variant.weight, variant.style)
save_font_fname(name, variant) ==
    name \o <<"-", FontWeight_fmt(variant.weight), " ",
              FontStyle_fmt(variant.style), ".ttf">>

\* Path::file_stem: the name without its last extension.
file_stem(fname) ==
    IF Len(fname) > 1 /\ fname[Len(fname)] \in Extensions
    THEN SubSeq(fname, 1, Len(fname) - 1)
    ELSE fname

\* str::rsplit_once / split_once: the position of the last / first `sep`,
\* 0 when it does not occur.
find(s, sep) ==
    LET at == {i \in 1..Len(s) : s[i] = sep} IN
    IF at = {} THEN 0 ELSE CHOOSE i \in at : \A j \in at : i <= j

\* rfind that splits at the first `sep`, as split_once does.
rfind_first(s, sep) == find(s, sep)

rfind(s, sep) ==
    LET at == {i \in 1..Len(s) : s[i] = sep} IN
    IF at = {} THEN 0 ELSE CHOOSE i \in at : \A j \in at : j <= i

\* One iteration of populate's loop over the directory: the index after the
\* entry `fname` has been looked at.
populate_entry(fonts, fname, entry) ==
    LET stem == file_stem(fname)
        dash == rfind(stem, "-")
        fam == SubSeq(stem, 1, dash - 1)
        var == SubSeq(stem, dash + 1, Len(stem))
        space == find(var, " ")
        weight == FontWeight_from_str(SubSeq(var, 1, space - 1))
        style == FontStyle_from_str(SubSeq(var, space + 1, Len(var)))
    IN  IF dash = 0 THEN fonts                 \* Unknown file in cache
        ELSE IF space = 0 THEN fonts           \* Unable to recognise variant
        ELSE IF style = "Err" THEN fonts
        ELSE IF weight = "Err" THEN fonts
        ELSE IF entry.kind # "file" THEN fonts
        ELSE index_push(fonts, fam, FontVariant_new(weight, style), fname)

\* A byte that is not UTF-8 in a file name, and OsStr::to_str: None for a
\* name that holds one.
NotUtf8 == "<ff>"
to_str(os_str) ==
    IF \E i \in 1..Len(os_str) : os_str[i] = NotUtf8 THEN None ELSE Some(os_str)

\* The loop of populate over the entries still to come: Ok with the index, or
\* the panic of `path.file_stem().unwrap().to_str().unwrap()`.
RECURSIVE populate_from(_, _, _)
populate_from(fonts, entries, dir) ==
    IF entries = <<>> THEN [tag |-> "ok", fonts |-> fonts]
    ELSE IF to_str(file_stem(Head(entries))) = None THEN [tag |-> "panic"]
    ELSE populate_from(populate_entry(fonts, Head(entries), dir[Head(entries)]),
                       Tail(entries), dir)

\* The orders in which read_dir may list the directory.
Listings(dir) ==
    {s \in [1..Cardinality(DOMAIN dir) -> DOMAIN dir] :
        \A i, j \in DOMAIN s : i # j => s[i] # s[j]}

\* FontCache::new: every way populate can end on the directory.
FontCache_new(dir) == {populate_from(<<>>, s, dir) : s \in Listings(dir)}

\* Every index populate can build from the directory.
populate(dir) == {made.fonts : made \in {x \in FontCache_new(dir) : x.tag = "ok"}}

\* FontCache::variant. "None": not indexed; "Panic": an unwrap failed
\* (File::open, read_to_end, and in textual parse_font); "Some": the bytes.
cache_variant(fonts, dir, bin, name, variant) ==
    LET fam == family(fonts, name)
        opt == IF fam = None THEN None
               ELSE FontFamily_variant_path(unwrap(fam), variant)
        path == unwrap(opt)
    IN  IF opt = None THEN [tag |-> "None"]
        ELSE IF path \notin DOMAIN dir THEN [tag |-> "Panic"]
        ELSE IF dir[path].kind # "file" THEN [tag |-> "Panic"]
        ELSE IF bin = "textual" /\ ~parse_font_ok(dir[path].bytes) THEN [tag |-> "Panic"]
        ELSE [tag |-> "Some", bytes |-> dir[path].bytes]

\* The lookup of FontCache::variant: is (name, variant) in the index?
indexed(fonts, name, variant) ==
    LET fam == family(fonts, name) IN
    IF fam = None THEN FALSE
    ELSE FontFamily_variant_path(unwrap(fam), variant) # None

\* The URL of (name, variant) in the catalog, None when it is not listed.
catalog_url(name, variant) ==
    LET fam == family(GoogleFonts, name) IN
    IF fam = None THEN None ELSE FontFamily_variant_path(unwrap(fam), variant)

(***************************************************************************)
(* The resolver's state machine.                                           *)
(***************************************************************************)
Key(r) == <<unwrap(asked[r].font), asked[r].variant>>

\* What a request ends with: the font (its bytes), the built-in default font,
\* None / 404 ("not_found"), a panic of its task, or the loss of the process.
Outcome(tag) == [tag |-> tag, bytes |-> None]
Font(bytes) == [tag |-> "font", bytes |-> bytes]

EmptyDir == [f \in {} |-> Dir]
CachedDir ==
    (save_font_fname(Lato, FontVariant_default)
        :> File(remote("https://fonts/lato-regular")))

\* The cache directory as the process starts: empty, or left by an earlier run.
InitialDirs == {EmptyDir, CachedDir}

InitImageIdle ==
    /\ image = [width |-> 0, height |-> 0, data |-> <<>>]
    /\ before = image
    /\ op = [name |-> "none"]

InitCallsIdle ==
    /\ call = [name |-> "none"]
    /\ ret = None

InitRequests ==
    /\ readers = {}
    /\ writer = None
    /\ pc = [r \in Requests |-> "idle"]
    /\ asked = [r \in Requests |-> [font |-> None, variant |-> FontVariant_default]]
    /\ buffer = [r \in Requests |-> None]
    /\ result = [r \in Requests |-> Outcome("pending")]
    /\ fetches = [k \in Keys |-> 0]
    /\ failures = [k \in Keys |-> [fetch |-> 0, save |-> 0]]
    /\ fetchedBy = [r \in Requests |-> 0]
    /\ found = [r \in Requests |-> "nothing"]
    /\ indexAtSave = [r \in Requests |-> None]
    /\ saveFailed = [r \in Requests |-> FALSE]
    /\ served = [k \in Keys |-> "no"]
    /\ afterServed = [r \in Requests |-> "no"]
    /\ crashes = 0

Init ==
    /\ binary \in {"textual", "backend"}
    /\ disk \in InitialDirs
    /\ font_cache \in populate(disk)
    /\ InitRequests
    /\ InitImageIdle
    /\ InitCallsIdle

\* The RwLock guard `r` holds is dropped (at the end of its scope, or as a
\* panic unwinds the task: tokio's RwLock is not poisoned).
Release(r) ==
    /\ readers' = readers \ {r}
    /\ writer' = IF writer = Some(r) THEN None ELSE writer

\* Text::get_font is called: a font parameter takes fp.write(), none fp.read().
GetFont(r) ==
    /\ binary = "textual"
    /\ pc[r] = "idle"
    /\ \E a \in Asked :
        /\ asked' = [asked EXCEPT ![r] = a]
        /\ pc' = [pc EXCEPT ![r] = IF a.font = None THEN "wait_read" ELSE "wait_write"]
        /\ afterServed' = [afterServed EXCEPT ![r] =
                             IF a.font = None THEN "no"
                             ELSE served[<<unwrap(a.font), a.variant>>]]
    /\ UNCHANGED <<binary, font_cache, disk, readers, writer, buffer, result, fetches,
                   failures, fetchedBy, found, indexAtSave, saveFailed, served, crashes>>
    /\ UNCHANGED <<imageVars, callVars>>

\* The fonts handler of fastly-backend is called: it starts with provider.read().
Fonts(r) ==
    /\ binary = "backend"
    /\ pc[r] = "idle"
    /\ \E a \in {x \in Asked : x.font # None} :
        /\ asked' = [asked EXCEPT ![r] = a]
        /\ afterServed' = [afterServed EXCEPT ![r] = served[<<unwrap(a.font), a.variant>>]]
    /\ pc' = [pc EXCEPT ![r] = "wait_read"]
    /\ UNCHANGED <<binary, font_cache, disk, readers, writer, buffer, result, fetches,
                   failures, fetchedBy, found, indexAtSave, saveFailed, served, crashes>>
    /\ UNCHANGED <<imageVars, callVars>>

\* RwLock::read().await returns: no writer holds the lock.
AcquireRead(r) ==
    /\ pc[r] = "wait_read"
    /\ writer = None
    /\ readers' = readers \cup {r}
    /\ pc' = [pc EXCEPT ![r] = "reading"]
    /\ UNCHANGED <<binary, font_cache, disk, writer, asked, buffer, result, fetches,
                   failures, fetchedBy, found, indexAtSave, saveFailed, served,
                   afterServed, crashes>>
    /\ UNCHANGED <<imageVars, callVars>>

\* AcquireWrite without exclusion, as if the guard were a read guard.
AcquireWriteShared(r) ==
    /\ pc[r] = "wait_write"
    /\ writer' = Some(r)
    /\ pc' = [pc EXCEPT ![r] = "variant"]
    /\ UNCHANGED <<binary, font_cache, disk, readers, asked, buffer, result, fetches,
                   failures, fetchedBy, found, indexAtSave, saveFailed, served,
                   afterServed, crashes>>
    /\ UNCHANGED <<imageVars, callVars>>

\* RwLock::write().await returns: nobody holds the lock.
AcquireWrite(r) ==
    /\ pc[r] = "wait_write"
    /\ writer = None
    /\ readers = {}
    /\ writer' = Some(r)
    /\ pc' = [pc EXCEPT ![r] = "variant"]
    /\ UNCHANGED <<binary, font_cache, disk, readers, asked, buffer, result, fetches,
                   failures, fetchedBy, found, indexAtSave, saveFailed, served,
                   afterServed, crashes>>
    /\ UNCHANGED <<imageVars, callVars>>

\* textual, no font parameter: fp.read().await.default_font().
DefaultFont(r) ==
    /\ binary = "textual"
    /\ pc[r] = "reading"
    /\ result' = [result EXCEPT ![r] = Outcome("default")]
    /\ pc' = [pc EXCEPT ![r] = "done"]
    /\ Release(r)
    /\ UNCHANGED <<binary, font_cache, disk, asked, buffer, fetches, failures,
                   fetchedBy, found, indexAtSave, saveFailed, served, afterServed,
                   crashes>>
    /\ UNCHANGED <<imageVars, callVars>>

\* backend: variant_cached under the read guard, which is dropped at the end
\* of the block; then the match on its result up to the next await.
VariantCached(r) ==
    /\ binary = "backend"
    /\ pc[r] = "reading"
    /\ LET c == cache_variant(font_cache, disk, binary, Key(r)[1], Key(r)[2])
           known == catalog_url(Key(r)[1], Key(r)[2]) # None
       IN  /\ found' = [found EXCEPT ![r] =
                          IF c.tag = "Some" THEN "hit"
                          ELSE IF c.tag = "Panic" THEN "panic"
                          ELSE IF known THEN "known" ELSE "unknown"]
           /\ result' = [result EXCEPT ![r] =
                          IF c.tag = "Some" THEN Font(c.bytes)
                          ELSE IF c.tag = "Panic" THEN Outcome("panicked")
                          ELSE IF known THEN @ ELSE Outcome("not_found")]
           /\ pc' = [pc EXCEPT ![r] =
                          IF c.tag = "None" /\ known THEN "wait_write" ELSE "done"]
    /\ Release(r)
    /\ UNCHANGED <<binary, font_cache, disk, asked, buffer, fetches, failures,
                   fetchedBy, indexAtSave, saveFailed, served, afterServed, crashes>>
    /\ UNCHANGED <<imageVars, callVars>>

\* FontProvider::variant up to its first I/O: the cache lookup (a hit returns,
\* a failed unwrap panics), then the catalog lookup.  An unknown font ends in
\* self.default.clone() in textual and in None (404) in backend.
Variant(r) ==
    /\ pc[r] = "variant"
    /\ LET c == cache_variant(font_cache, disk, binary, Key(r)[1], Key(r)[2])
           known == catalog_url(Key(r)[1], Key(r)[2]) # None
       IN  /\ found' = [found EXCEPT ![r] =
                          IF c.tag = "Some" THEN "hit"
                          ELSE IF c.tag = "Panic" THEN "panic"
                          ELSE IF known THEN "known" ELSE "unknown"]
           /\ result' = [result EXCEPT ![r] =
                          IF c.tag = "Some" THEN Font(c.bytes)
                          ELSE IF c.tag = "Panic" THEN Outcome("panicked")
                          ELSE IF known THEN @
                          ELSE IF binary = "textual" THEN Outcome("default")
                          ELSE Outcome("not_found")]
           /\ pc' = [pc EXCEPT ![r] = IF c.tag = "None" /\ known THEN "fetch" ELSE "done"]
           /\ IF c.tag = "None" /\ known
              THEN UNCHANGED <<readers, writer>>
              ELSE Release(r)
    /\ UNCHANGED <<binary, font_cache, disk, asked, buffer, fetches, failures,
                   fetchedBy, indexAtSave, saveFailed, served, afterServed, crashes>>
    /\ UNCHANGED <<imageVars, callVars>>

\* Fetch with one more attempt after a first call that failed.
FetchWithRetry(r) ==
    /\ pc[r] = "fetch"
    /\ fetches' = [fetches EXCEPT ![Key(r)] = @ + 1]
    /\ fetchedBy' = [fetchedBy EXCEPT ![r] = @ + 1]
    /\ \E ok \in BOOLEAN :
        IF ok
        THEN /\ buffer' = [buffer EXCEPT ![r] = remote(unwrap(catalog_url(Key(r)[1], Key(r)[2])))]
             /\ indexAtSave' = [indexAtSave EXCEPT ![r] = font_cache]
             /\ pc' = [pc EXCEPT ![r] = "create"]
             /\ UNCHANGED <<result, failures, served, readers, writer>>
        ELSE /\ failures' = [failures EXCEPT ![Key(r)].fetch = @ + 1]
             /\ served' = [served EXCEPT ![Key(r)] = "failed"]
             /\ IF fetchedBy[r] = 0
                THEN UNCHANGED <<result, pc, readers, writer>>
                ELSE /\ result' = [result EXCEPT ![r] = Outcome("panicked")]
                     /\ pc' = [pc EXCEPT ![r] = "done"]
                     /\ Release(r)
             /\ UNCHANGED <<buffer, indexAtSave>>
    /\ UNCHANGED <<binary, font_cache, disk, asked, found, saveFailed,
                   afterServed, crashes>>
    /\ UNCHANGED <<imageVars, callVars>>

\* ureq::get(&var).call().unwrap() and read_to_end: the body arrives and
\* save_font is entered, or the unwrap of an Err panics.
Fetch(r) ==
    /\ pc[r] = "fetch"
    /\ fetches' = [fetches EXCEPT ![Key(r)] = @ + 1]
    /\ fetchedBy' = [fetchedBy EXCEPT ![r] = @ + 1]
    /\ \E ok \in BOOLEAN :
        IF ok
        THEN /\ buffer' = [buffer EXCEPT ![r] = remote(unwrap(catalog_url(Key(r)[1], Key(r)[2])))]
             /\ indexAtSave' = [indexAtSave EXCEPT ![r] = font_cache]
             /\ pc' = [pc EXCEPT ![r] = "create"]
             /\ UNCHANGED <<result, failures, served, readers, writer>>
        ELSE /\ result' = [result EXCEPT ![r] = Outcome("panicked")]
             /\ failures' = [failures EXCEPT ![Key(r)].fetch = @ + 1]
             /\ served' = [served EXCEPT ![Key(r)] = "failed"]
             /\ pc' = [pc EXCEPT ![r] = "done"]
             /\ Release(r)
             /\ UNCHANGED <<buffer, indexAtSave>>
    /\ UNCHANGED <<binary, font_cache, disk, asked, found, saveFailed,
                   afterServed, crashes>>
    /\ UNCHANGED <<imageVars, callVars>>

\* SaveFontCreate with the index updated before the file is created.
SaveFontCreateIndexFirst(r) ==
    /\ pc[r] = "create"
    /\ font_cache' = index_push(font_cache, Key(r)[1], Key(r)[2],
                                save_font_fname(Key(r)[1], Key(r)[2]))
    /\ \E ok \in BOOLEAN :
        IF ok
        THEN /\ disk' = (save_font_fname(Key(r)[1], Key(r)[2]) :> File(Truncated)) @@ disk
             /\ pc' = [pc EXCEPT ![r] = "write"]
             /\ UNCHANGED <<result, failures, saveFailed, served, readers, writer>>
        ELSE /\ result' = [result EXCEPT ![r] = Outcome("panicked")]
             /\ failures' = [failures EXCEPT ![Key(r)].save = @ + 1]
             /\ saveFailed' = [saveFailed EXCEPT ![r] = TRUE]
             /\ served' = [served EXCEPT ![Key(r)] = "failed"]
             /\ pc' = [pc EXCEPT ![r] = "done"]
             /\ Release(r)
             /\ UNCHANGED disk
    /\ UNCHANGED <<binary, asked, buffer, fetches, fetchedBy, found,
                   indexAtSave, afterServed, crashes>>
    /\ UNCHANGED <<imageVars, callVars>>

\* save_font: File::create(&path).unwrap() truncates or creates the file.
SaveFontCreate(r) ==
    /\ pc[r] = "create"
    /\ \E ok \in BOOLEAN :
        IF ok
        THEN /\ disk' = (save_font_fname(Key(r)[1], Key(r)[2]) :> File(Truncated)) @@ disk
             /\ pc' = [pc EXCEPT ![r] = "write"]
             /\ UNCHANGED <<result, failures, saveFailed, served, readers, writer>>
        ELSE /\ result' = [result EXCEPT ![r] = Outcome("panicked")]
             /\ failures' = [failures EXCEPT ![Key(r)].save = @ + 1]
             /\ saveFailed' = [saveFailed EXCEPT ![r] = TRUE]
             /\ served' = [served EXCEPT ![Key(r)] = "failed"]
             /\ pc' = [pc EXCEPT ![r] = "done"]
             /\ Release(r)
             /\ UNCHANGED disk
    /\ UNCHANGED <<binary, font_cache, asked, buffer, fetches, fetchedBy, found,
                   indexAtSave, afterServed, crashes>>
    /\ UNCHANGED <<imageVars, callVars>>

\* save_font: file.write_all(buf).unwrap().
SaveFontWrite(r) ==
    /\ pc[r] = "write"
    /\ \E ok \in BOOLEAN :
        IF ok
        THEN /\ disk' = (save_font_fname(Key(r)[1], Key(r)[2]) :> File(buffer[r])) @@ disk
             /\ pc' = [pc EXCEPT ![r] = "index"]
             /\ UNCHANGED <<result, failures, saveFailed, served, readers, writer>>
        ELSE /\ result' = [result EXCEPT ![r] = Outcome("panicked")]
             /\ failures' = [failures EXCEPT ![Key(r)].save = @ + 1]
             /\ saveFailed' = [saveFailed EXCEPT ![r] = TRUE]
             /\ served' = [served EXCEPT ![Key(r)] = "failed"]
             /\ pc' = [pc EXCEPT ![r] = "done"]
             /\ Release(r)
             /\ UNCHANGED disk
    /\ UNCHANGED <<binary, font_cache, asked, buffer, fetches, fetchedBy, found,
                   indexAtSave, afterServed, crashes>>
    /\ UNCHANGED <<imageVars, callVars>>

\* save_font's index update, then variant returns the fetched bytes (textual:
\* parse_font(&buffer)) and the write guard is dropped.
SaveFontIndex(r) ==
    /\ pc[r] = "index"
    /\ font_cache' = index_push(font_cache, Key(r)[1], Key(r)[2],
                                save_font_fname(Key(r)[1], Key(r)[2]))
    /\ result' = [result EXCEPT ![r] = Font(buffer[r])]
    /\ served' = [served EXCEPT ![Key(r)] = "yes"]
    /\ pc' = [pc EXCEPT ![r] = "done"]
    /\ Release(r)
    /\ UNCHANGED <<binary, disk, asked, buffer, fetches, failures, fetchedBy, found,
                   indexAtSave, saveFailed, afterServed, crashes>>
    /\ UNCHANGED <<imageVars, callVars>>

\* The process dies at any point and is started again: every request in
\* flight is lost, and FontCache::new scans the directory afresh.
InFlight(r) == pc[r] \notin {"idle", "done"}
Saving(r) == pc[r] \in {"create", "write", "index"}

Crash ==
    /\ crashes < MaxCrashes
    /\ crashes' = crashes + 1
    /\ font_cache' \in populate(disk)
    /\ readers' = {}
    /\ writer' = None
    /\ pc' = [r \in Requests |-> IF InFlight(r) THEN "done" ELSE pc[r]]
    /\ result' = [r \in Requests |-> IF InFlight(r) THEN Outcome("lost") ELSE result[r]]
    /\ failures' = [k \in Keys |->
                      IF \E r \in Requests : Saving(r) /\ Key(r) = k
                      THEN [failures[k] EXCEPT !.save = @ + 1] ELSE failures[k]]
    /\ UNCHANGED <<binary, disk, asked, buffer, fetches, fetchedBy, found,
                   indexAtSave, saveFailed, served, afterServed>>
    /\ UNCHANGED <<imageVars, callVars>>

Next ==
    \/ \E r \in Requests : GetFont(r)
    \/ \E r \in Requests : Fonts(r)
    \/ \E r \in Requests : AcquireRead(r)
    \/ \E r \in Requests : AcquireWrite(r)
    \/ \E r \in Requests : DefaultFont(r)
    \/ \E r \in Requests : VariantCached(r)
    \/ \E r \in Requests : Variant(r)
    \/ \E r \in Requests : Fetch(r)
    \/ \E r \in Requests : SaveFontCreate(r)
    \/ \E r \in Requests : SaveFontWrite(r)
    \/ \E r \in Requests : SaveFontIndex(r)
    \/ Crash

Spec == Init /\ [][Next]_vars

(***************************************************************************)
(* Properties of the font resolver (Spec).                                 *)
(***************************************************************************)
SameFont(r1, r2) ==
    /\ r1 # r2
    /\ asked[r1].font # None
    /\ asked[r1] = asked[r2]

Returned(r) == pc[r] = "done" /\ result[r].tag \notin {"pending", "lost"}

\* C1, as stated: for requests racing on the same miss, the remote fetch of a
\* variant is performed at most once.  Only fetches that returned the bytes
\* are counted here.
C1_FetchedAtMostOnce ==
    \A k \in Keys : fetches[k] - failures[k].fetch <= 1

\* C1, amended: over every interleaving of the lock acquisitions a variant is
\* fetched at most once, plus once for every earlier fetch of it that failed
\* or whose bytes never reached the index (File::create or write_all failed,
\* or the process died inside save_font).
C1_OneFetchPerIndexedVariant ==
    \A k \in Keys : fetches[k] <= 1 + failures[k].fetch + failures[k].save

\* Two backend requests saw the same miss under the read lock; one has fetched
\* and holds the write lock, the other waits for it.
C1_RaceWitness ==
    \E r1, r2 \in Requests :
        /\ SameFont(r1, r2)
        /\ binary = "backend"
        /\ pc[r1] = "create" /\ writer = Some(r1)
        /\ pc[r2] = "wait_write" /\ found[r2] = "known"
        /\ fetches[Key(r1)] = 1

\* Part of C2 that holds as stated: a resolve that missed the cache and found
\* the variant in the catalog has made exactly one fetch when it ends.
ExactlyOneFetchOnMiss ==
    \A r \in Requests :
        (found[r] = "known" /\ result[r].tag \in {"font", "panicked"})
            => fetchedBy[r] = 1

\* A resolve that began when an earlier resolve of the same font had ended
\* with `outcomes` makes no fetch and is served the cached bytes.
LaterServedFromCache(outcomes) ==
    \A r \in Requests :
        (asked[r].font # None /\ afterServed[r] \in outcomes)
            => /\ fetchedBy[r] = 0
               /\ Returned(r) =>
                    /\ found[r] = "hit"
                    /\ result[r] = Font(remote(unwrap(catalog_url(Key(r)[1], Key(r)[2]))))

C3_UnknownIsNotFound ==
    \A r \in Requests :
        (found[r] = "unknown" /\ Returned(r))
            => (result[r].tag = "not_found" /\ fetchedBy[r] = 0)

\* C4: when the fetch succeeded and the write to the cache failed, resolve
\* still returns the fetched bytes.
C4_WriteFailureStillServes ==
    \A r \in Requests :
        (saveFailed[r] /\ pc[r] = "done") => result[r] = Font(buffer[r])

\* C5: a save_font whose File::create or write_all fails leaves the index as
\* it was when save_font was entered: no entry is added.
C5_FailedSaveLeavesIndex ==
    [][\A r \in Requests :
          (saveFailed'[r] /\ ~saveFailed[r])
              => (font_cache' = font_cache /\ font_cache' = indexAtSave[r])]_vars

\* A cache write has failed and the font is not in the index.
C5_Witness ==
    \E r \in Requests :
        /\ saveFailed[r]
        /\ fetchedBy[r] = 1
        /\ ~indexed(font_cache, Key(r)[1], Key(r)[2])

\* The step in which the fetch of request r fails.
FetchFails(r) ==
    /\ pc[r] = "fetch"
    /\ failures'[Key(r)].fetch = failures[Key(r)].fetch + 1

\* The fetch of request r has failed.
FetchFailed(r) ==
    found[r] = "known" /\ result[r] = Outcome("panicked") /\ ~saveFailed[r]

\* Every fetch of the font of r that another request made has failed.
OnlyFailedFetches(r) ==
    fetches[Key(r)] - fetchedBy[r]
        = failures[Key(r)].fetch - (IF FetchFailed(r) THEN 1 ELSE 0)

\* C25: a resolve whose fetch fails has made exactly one fetch attempt and
\* ends there with the failure (no font is returned); the step leaves the
\* cache index and the cache directory as they were; and a later resolve of
\* the same font, begun after such failures only, fetches again.
C25_FailedFetchLeavesCache ==
    /\ [][\A r \in Requests :
            FetchFails(r)
                => /\ fetchedBy'[r] = 1
                   /\ pc'[r] = "done"
                   /\ result'[r] = Outcome("panicked")
                   /\ font_cache' = font_cache
                   /\ disk' = disk]_vars
    /\ [](\A r \in Requests :
            (asked[r].font # None /\ afterServed[r] = "failed"
                /\ Returned(r) /\ OnlyFailedFetches(r))
                => (found[r] = "known" /\ fetchedBy[r] = 1))

\* A fetch failed, and a later resolve of the same font fetched again.
C25_Witness ==
    \E r1, r2 \in Requests :
        /\ SameFont(r1, r2)
        /\ FetchFailed(r1) /\ fetchedBy[r1] = 1
        /\ afterServed[r2] = "failed" /\ OnlyFailedFetches(r2)
        /\ found[r2] = "known" /\ fetchedBy[r2] = 1 /\ result[r2].tag = "font"

\* FontProvider::cached: the fold over the families of variants.len().
RECURSIVE cached(_)
cached(fonts) ==
    IF fonts = <<>> THEN 0 ELSE Len(Head(fonts).variants) + cached(Tail(fonts))

\* The index holds one record per family name and one entry per variant of
\* a family.
NoDuplicates(fonts) ==
    /\ \A i, j \in 1..Len(fonts) : fonts[i].face = fonts[j].face => i = j
    /\ \A i \in 1..Len(fonts) : \A k, l \in 1..Len(fonts[i].variants) :
           fonts[i].variants[k][1] = fonts[i].variants[l][1] => k = l

\* The sum of count[k] over the keys ks.
RECURSIVE Sum(_, _)
Sum(count, ks) ==
    IF ks = {} THEN 0
    ELSE LET k == CHOOSE x \in ks : TRUE IN count[k] + Sum(count, ks \ {k})

\* cached() as the process started: the file of the initial directory, which
\* is the one file on disk that was never fetched.
InitialCount ==
    IF save_font_fname(Lato, FontVariant_default) \in DOMAIN disk
          /\ fetches[<<Lato, FontVariant_default>>] = 0
    THEN 1 ELSE 0

Quiescent == \A r \in Requests : ~InFlight(r)

\* C29, as stated: from an index without duplicates, after any sequence or
\* interleaving of resolve calls the index has one record per family and one
\* entry per (family, variant), and cached() is the initial count plus the
\* number of fetches performed.
C29_CachedCountsFetches ==
    /\ NoDuplicates(font_cache)
    /\ (crashes = 0 /\ Quiescent)
          => cached(font_cache) = InitialCount + Sum(fetches, Keys)

\* C29, amended: the index has no duplicates, and cached() is the initial
\* count plus the number of fetches whose bytes were saved and indexed: the
\* fetches performed, less those that failed, those whose File::create or
\* write_all failed, and those whose save_font is still running.
C29_CachedCountsIndexedFetches ==
    /\ NoDuplicates(font_cache)
    /\ crashes = 0
          => cached(font_cache)
                = InitialCount
                  + Sum([k \in Keys |-> fetches[k] - failures[k].fetch - failures[k].save],
                        Keys)
                  - Cardinality({r \in Requests : Saving(r)})

\* Two variants of one family were fetched and indexed under one record.
C29_Witness ==
    /\ crashes = 0 /\ Quiescent
    /\ Len(font_cache) = 1
    /\ cached(font_cache) = 2
    /\ Sum(fetches, Keys) >= 1

\* C6: a resolve that hits the cache holds the lock in read mode only.
C6_HitsHoldReadLockOnly ==
    \A r \in Requests :
        (pc[r] = "variant"
            /\ cache_variant(font_cache, disk, binary, Key(r)[1], Key(r)[2]).tag = "Some")
            => writer # Some(r)

\* C7: in every reachable state, restarts included, every entry of the index
\* refers to a file on disk that holds the complete fetched bytes.
C7_IndexedFilesComplete ==
    \A i \in 1..Len(font_cache) : \A j \in 1..Len(font_cache[i].variants) :
        LET path == font_cache[i].variants[j][2] IN
        /\ path \in DOMAIN disk
        /\ disk[path].kind = "file"
        /\ parse_font_ok(disk[path].bytes)

(***************************************************************************)
(* f32 arithmetic as Image::draw_img and Image::mix use it.  A value is    *)
(* m * 2^e with m = 0 or 2^23 <= m < 2^24 (IEEE-754 binary32; no negative  *)
(* value and no subnormal arises from bytes).  Every operation rounds to   *)
(* nearest, ties to even.  Intermediate integers stay below 2^31.          *)
(***************************************************************************)
TwoTo23 == 8388608
TwoTo24 == 16777216

f32_zero == [m |-> 0, e |-> 0]

\* Shift a positive integer below 2^24 up to the 24 bits [2^23, 2^24).
RECURSIVE f32_normalize(_, _)
f32_normalize(m, e) ==
    IF m = 0 THEN f32_zero
    ELSE IF m < TwoTo23 THEN f32_normalize(m * 2, e - 1)
    ELSE [m |-> m, e |-> e]

\* `c as f32` for a byte: exact.
f32_from_u8(c) == f32_normalize(c, 0)

\* The lowest bit of q set when bits were lost (the sticky bit).
jam(q, lost) == IF lost /\ q % 2 = 0 THEN q + 1 ELSE q

\* n >> d, sticky.
shift_right_sticky(n, d) ==
    IF d = 0 THEN n
    ELSE IF d >= 28 THEN jam(0, n # 0)
    ELSE jam(n \div (2 ^ d), n % (2 ^ d) # 0)

\* Round grs * 2^e to 24 bits, where 2^26 <= grs < 2^27 carries three extra
\* low bits (guard, round, sticky).
f32_round(grs, e) ==
    LET m == grs \div 8
        low == grs % 8
        r == IF low > 4 \/ (low = 4 /\ m % 2 = 1) THEN m + 1 ELSE m
    IN  IF r = TwoTo24 THEN [m |-> TwoTo23, e |-> e + 4] ELSE [m |-> r, e |-> e + 3]

\* a + b
f32_add(a, b) ==
    IF a.m = 0 THEN b
    ELSE IF b.m = 0 THEN a
    ELSE LET x == IF a.e >= b.e THEN a ELSE b
             y == IF a.e >= b.e THEN b ELSE a
             sum == x.m * 8 + shift_right_sticky(y.m * 8, x.e - y.e)
         IN  IF sum >= 8 * TwoTo24
             THEN f32_round(shift_right_sticky(sum, 1), x.e - 2)
             ELSE f32_round(sum, x.e - 3)

RECURSIVE f32_round_shifted(_, _)
f32_round_shifted(grs, e) ==
    IF grs < 8 * TwoTo23 THEN f32_round_shifted(grs * 2, e - 1) ELSE f32_round(grs, e)

\* a - b, for a >= b
f32_sub(a, b) ==
    IF b.m = 0 THEN a
    ELSE LET diff == a.m * 8 - shift_right_sticky(b.m * 8, a.e - b.e)
         IN  IF diff = 0 THEN f32_zero ELSE f32_round_shifted(diff, a.e - 3)

\* a * b: the 48-bit product of the mantissas is hi * 2^24 + lo.
f32_mul(a, b) ==
    IF a.m = 0 \/ b.m = 0 THEN f32_zero
    ELSE LET a1 == a.m \div 4096
             a0 == a.m % 4096
             b1 == b.m \div 4096
             b0 == b.m % 4096
             mid == a1 * b0 + a0 * b1
             losum == a0 * b0 + (mid % 4096) * 4096
             lo == losum % TwoTo24
             hi == a1 * b1 + mid \div 4096 + losum \div TwoTo24
         IN  IF hi >= TwoTo23
             THEN f32_round(jam(hi * 8 + lo \div 2097152, lo % 2097152 # 0),
                            a.e + b.e + 21)
             ELSE f32_round(jam(hi * 16 + lo \div 1048576, lo % 1048576 # 0),
                            a.e + b.e + 20)

\* n steps of long division: <<quotient bits, remainder>>.
RECURSIVE long_div(_, _, _, _)
long_div(q, rem, d, n) ==
    IF n = 0 THEN <<q, rem>>
    ELSE IF 2 * rem >= d THEN long_div(2 * q + 1, 2 * rem - d, d, n - 1)
    ELSE long_div(2 * q, 2 * rem, d, n - 1)

\* a / b, for b # 0
f32_div(a, b) ==
    IF a.m = 0 THEN f32_zero
    ELSE LET n == IF a.m >= b.m THEN 26 ELSE 27
             qr == long_div(a.m \div b.m, a.m % b.m, b.m, n)
         IN  f32_round(jam(qr[1], qr[2] # 0), a.e - b.e - n)

\* `x as u8`: truncation toward zero, saturating at 255.
f32_as_u8(x) ==
    IF x.m = 0 THEN 0
    ELSE IF x.e >= 0 THEN 255
    ELSE IF x.e <= -24 THEN 0
    ELSE IF x.m \div (2 ^ (0 - x.e)) > 255 THEN 255
    ELSE x.m \div (2 ^ (0 - x.e))

(***************************************************************************)
(* Color and Image.  Image.data is the Vec<u8>, here indexed from 1: the   *)
(* byte at index i of the code is data[i + 1].                             *)
(***************************************************************************)
Color(r, g, b, a) == [r |-> r, g |-> g, b |-> b, a |-> a]

Image(width, height, data) == [width |-> width, height |-> height, data |-> data]

xy_to_index(img, x, y) == (y * img.width + x) * 4

\* A panic: an index outside its Vec, or an arithmetic overflow in a build
\* that checks for it.
Panic == [tag |-> "panic"]
IsPanic(v) == "tag" \in DOMAIN v

\* `v[i]`, ..., `v[i + n - 1]` are inside the Vec.
InVec(v, i, n) == 0 <= i /\ i + n <= Len(v)

\* with_color repeating the three bytes r, g, b of the colour.
with_color_rgb(width, height, color) ==
    [width |-> width, height |-> height,
     data |-> [i \in 1..(width * height * 3) |->
                 CASE i % 3 = 1 -> color.r
                   [] i % 3 = 2 -> color.g
                   [] OTHER -> color.b]]

\* Into::<[u8; 4]>::into(color).repeat(width * height)
with_color(width, height, color) ==
    Image(width, height,
          [i \in 1..(width * height * 4) |->
              CASE i % 4 = 1 -> color.r
                [] i % 4 = 2 -> color.g
                [] i % 4 = 3 -> color.b
                [] OTHER -> color.a])

\* Stripes::color_at for slope 2.0: (x + (y as f32 / slope) as usize) / stripe_width
\* picks the colour; y / 2.0 is exact in f32 and the cast truncates.
Stripes_color_at(stripes, x, y) ==
    stripes.colors[(((x + y \div 2) \div stripes.stripe_width) % Len(stripes.colors)) + 1]

\* Stripes::color_at for any stripe_width: the division by a stripe_width of
\* 0 panics.
color_at(stripes, x, y) ==
    IF stripes.stripe_width = 0 THEN Panic ELSE Stripes_color_at(stripes, x, y)

\* Image::from_provider with a Stripes provider, for off_x, off_y >= 0.
from_provider(width, height, off_x, off_y, cp) ==
    Image(width, height,
          [i \in 1..(width * height * 4) |->
              LET index == (i - 1) \div 4
                  color == Stripes_color_at(cp, (index % width) + off_x,
                                            (index \div width) + off_y)
              IN  CASE i % 4 = 1 -> color.r
                    [] i % 4 = 2 -> color.g
                    [] i % 4 = 3 -> color.b
                    [] OTHER -> color.a])

\* Image::from_buffer.  `colors` is [tag |-> "RGBA" | "RGB" | "Grey"], or
\* [tag |-> "GreyAsAlpha", color |-> c], or [tag |-> "GreyAsMask", provider |-> s].
\* A length that does not match panics: the result is the string "panic".
from_buffer_expected_len(width, height, colors) ==
    IF colors.tag \in {"Grey", "GreyAsAlpha", "GreyAsMask"} THEN width * height
    ELSE IF colors.tag = "RGB" THEN width * height * 3
    ELSE width * height * 4

\* from_buffer_data with every buffer read as Colors::Grey.
from_buffer_data_grey(width, data, colors) ==
    [i \in 1..(Len(data) * 4) |-> data[(i - 1) \div 4 + 1]]

from_buffer_data(width, data, colors) ==
    CASE colors.tag = "Grey" ->
            [i \in 1..(Len(data) * 4) |-> data[(i - 1) \div 4 + 1]]
      [] colors.tag = "GreyAsAlpha" ->
            [i \in 1..(Len(data) * 4) |->
                CASE i % 4 = 1 -> colors.color.r
                  [] i % 4 = 2 -> colors.color.g
                  [] i % 4 = 3 -> colors.color.b
                  [] OTHER -> data[(i - 1) \div 4 + 1]]
      [] colors.tag = "GreyAsMask" ->
            [i \in 1..(Len(data) * 4) |->
                LET index == (i - 1) \div 4
                    color == Stripes_color_at(colors.provider, index % width,
                                              index \div width)
                IN  CASE i % 4 = 1 -> color.r
                      [] i % 4 = 2 -> color.g
                      [] i % 4 = 3 -> color.b
                      [] OTHER -> data[index + 1]]
      [] colors.tag = "RGB" ->
            [i \in 1..((Len(data) \div 3) * 4) |->
                IF i % 4 = 0 THEN 255 ELSE data[((i - 1) \div 4) * 3 + ((i - 1) % 4) + 1]]
      [] OTHER -> data

from_buffer(width, height, data, colors) ==
    IF Len(data) # from_buffer_expected_len(width, height, colors)
    THEN "panic"
    ELSE Image(width, height, from_buffer_data(width, data, colors))

\* c as f32 / 255.0, for every byte c.
byte_over_255 == [c \in 0..255 |-> f32_div(f32_from_u8(c), f32_from_u8(255))]

\* The closure nrml of draw_img and of Image::mix.
nrml(c) == byte_over_255[c]

\* img_alpha_float + our_alpha_float * (1.0 - img_alpha_float)
mixed_alpha_of(img_alpha_float, our_alpha_float) ==
    f32_add(img_alpha_float,
            f32_mul(our_alpha_float, f32_sub(f32_from_u8(1), img_alpha_float)))

\* mix without its first branch, `if img_alpha_float == 0.0 { color_under }`.
mix_without_transparent_branch(color_under, color_over, img_alpha_float, our_alpha_float, mixed_alpha) ==
    IF our_alpha_float.m = 0 THEN color_over
    ELSE f32_as_u8(
           f32_mul(
             f32_div(
               f32_add(f32_mul(nrml(color_over), img_alpha_float),
                       f32_mul(f32_mul(nrml(color_under), our_alpha_float),
                               f32_sub(f32_from_u8(1), img_alpha_float))),
               mixed_alpha),
             f32_from_u8(255)))

\* The closure mix of draw_img (mix_component of Image::mix), which captures
\* the two alphas and mixed_alpha.
mix(color_under, color_over, img_alpha_float, our_alpha_float, mixed_alpha) ==
    IF img_alpha_float.m = 0 THEN color_under
    ELSE IF our_alpha_float.m = 0 THEN color_over
    ELSE f32_as_u8(
           f32_mul(
             f32_div(
               f32_add(f32_mul(nrml(color_over), img_alpha_float),
                       f32_mul(f32_mul(nrml(color_under), our_alpha_float),
                               f32_sub(f32_from_u8(1), img_alpha_float))),
               mixed_alpha),
             f32_from_u8(255)))

\* The innermost block of draw_img: the four bytes at our_index after the
\* pixel at img_index has been mixed over them.
draw_img_pixel(data, img_data, our_index, img_index) ==
    LET img_alpha_float == nrml(img_data[img_index + 3 + 1])
        our_alpha_float == nrml(data[our_index + 3 + 1])
        mixed_alpha == mixed_alpha_of(img_alpha_float, our_alpha_float)
    IN  [data EXCEPT
            ![our_index + 1] = mix(data[our_index + 1], img_data[img_index + 1],
                                   img_alpha_float, our_alpha_float, mixed_alpha),
            ![our_index + 2] = mix(data[our_index + 2], img_data[img_index + 2],
                                   img_alpha_float, our_alpha_float, mixed_alpha),
            ![our_index + 3] = mix(data[our_index + 3], img_data[img_index + 3],
                                   img_alpha_float, our_alpha_float, mixed_alpha),
            ![our_index + 4] = f32_as_u8(f32_mul(mixed_alpha, f32_from_u8(255)))]

\* The inner loop with `break` where the code has `continue`.
draw_img_row_break_left(self, img, off_x, y, img_y, img_x) ==
    LET RECURSIVE row(_, _)
        row(cur, ix) ==
            IF ix >= img.width THEN cur
            ELSE IF off_x + ix < 0 THEN cur
            ELSE IF off_x + ix >= cur.width THEN cur
            ELSE IF \/ ~InVec(cur.data, xy_to_index(cur, off_x + ix, y), 4)
                    \/ ~InVec(img.data, xy_to_index(img, ix, img_y), 4)
            THEN Panic
            ELSE row([cur EXCEPT !.data = draw_img_pixel(cur.data, img.data,
                                              xy_to_index(cur, off_x + ix, y),
                                              xy_to_index(img, ix, img_y))],
                     ix + 1)
    IN  row(self, img_x)

\* The inner loop, from img_x on: `continue` left of the buffer, `break`
\* right of it.
RECURSIVE draw_img_row(_, _, _, _, _, _)
draw_img_row(self, img, off_x, y, img_y, img_x) ==
    IF img_x >= img.width THEN self
    ELSE IF off_x + img_x < 0 THEN draw_img_row(self, img, off_x, y, img_y, img_x + 1)
    ELSE IF off_x + img_x >= self.width THEN self
    ELSE IF \/ ~InVec(self.data, xy_to_index(self, off_x + img_x, y), 4)
            \/ ~InVec(img.data, xy_to_index(img, img_x, img_y), 4)
    THEN Panic
    ELSE draw_img_row(
           [self EXCEPT !.data = draw_img_pixel(self.data, img.data,
                                    xy_to_index(self, off_x + img_x, y),
                                    xy_to_index(img, img_x, img_y))],
           img, off_x, y, img_y, img_x + 1)

\* The outer loop, from img_y on: `continue` above the buffer, `return` below.
RECURSIVE draw_img_rows(_, _, _, _, _)
draw_img_rows(self, img, off_x, off_y, img_y) ==
    IF img_y >= img.height THEN self
    ELSE IF off_y + img_y < 0 THEN draw_img_rows(self, img, off_x, off_y, img_y + 1)
    ELSE IF off_y + img_y >= self.height THEN self
    ELSE LET row == draw_img_row(self, img, off_x, off_y + img_y, img_y, 0)
         IN  IF IsPanic(row) THEN Panic
             ELSE draw_img_rows(row, img, off_x, off_y, img_y + 1)

\* Image::draw_img
draw_img(self, img, off_x, off_y) == draw_img_rows(self, img, off_x, off_y, 0)

\* Image::color; the caller has checked InVec.
Image_color(img, x, y) ==
    LET i == xy_to_index(img, x, y) IN
    Color(img.data[i + 1], img.data[i + 2], img.data[i + 3], img.data[i + 4])

\* Image::set_color: the data after the write; the caller has checked InVec.
Image_set_color(img, x, y, c) ==
    LET i == xy_to_index(img, x, y) IN
    [img.data EXCEPT ![i + 1] = c.r, ![i + 2] = c.g, ![i + 3] = c.b, ![i + 4] = c.a]

\* Image::mix
Image_mix(color_under, color_over) ==
    LET img_alpha_float == nrml(color_over.a)
        our_alpha_float == nrml(color_under.a)
        mixed_alpha == mixed_alpha_of(img_alpha_float, our_alpha_float)
    IN  Color(mix(color_under.r, color_over.r, img_alpha_float, our_alpha_float, mixed_alpha),
              mix(color_under.g, color_over.g, img_alpha_float, our_alpha_float, mixed_alpha),
              mix(color_under.b, color_over.b, img_alpha_float, our_alpha_float, mixed_alpha),
              f32_as_u8(f32_mul(mixed_alpha, f32_from_u8(255))))

\* Mask: a greyscale image, one byte per pixel.  Mask::new and set_from_buf
\* keep data.len() = width * height.
Mask(width, height, data) == [width |-> width, height |-> height, data |-> data]

\* The inner loop of Image::mask without `if x >= self.width { break; }`.
mask_row_without_break(self, m, off_x, y, img_y, img_x) ==
    LET RECURSIVE row(_, _)
        row(cur, ix) ==
            IF ix >= m.width THEN cur
            ELSE IF off_x + ix < 0 THEN row(cur, ix + 1)
            ELSE IF \/ ~InVec(cur.data, xy_to_index(cur, off_x + ix, y) + 3, 1)
                    \/ ~InVec(m.data, img_y * m.width + ix, 1)
            THEN Panic
            ELSE row([cur EXCEPT !.data[xy_to_index(cur, off_x + ix, y) + 3 + 1] =
                                      m.data[img_y * m.width + ix + 1]],
                     ix + 1)
    IN  row(self, img_x)

\* The inner loop of Image::mask writing `self.data[i]`, the red byte.
mask_row_writes_red(self, m, off_x, y, img_y, img_x) ==
    LET RECURSIVE row(_, _)
        row(cur, ix) ==
            IF ix >= m.width THEN cur
            ELSE IF off_x + ix < 0 THEN row(cur, ix + 1)
            ELSE IF off_x + ix >= cur.width THEN cur
            ELSE IF \/ ~InVec(cur.data, xy_to_index(cur, off_x + ix, y), 1)
                    \/ ~InVec(m.data, img_y * m.width + ix, 1)
            THEN Panic
            ELSE row([cur EXCEPT !.data[xy_to_index(cur, off_x + ix, y) + 1] =
                                      m.data[img_y * m.width + ix + 1]],
                     ix + 1)
    IN  row(self, img_x)

\* The inner loop of Image::mask, from img_x on.
RECURSIVE mask_row(_, _, _, _, _, _)
mask_row(self, m, off_x, y, img_y, img_x) ==
    IF img_x >= m.width THEN self
    ELSE IF off_x + img_x < 0 THEN mask_row(self, m, off_x, y, img_y, img_x + 1)
    ELSE IF off_x + img_x >= self.width THEN self
    ELSE IF \/ ~InVec(self.data, xy_to_index(self, off_x + img_x, y) + 3, 1)
            \/ ~InVec(m.data, img_y * m.width + img_x, 1)
    THEN Panic
    ELSE mask_row([self EXCEPT !.data[xy_to_index(self, off_x + img_x, y) + 3 + 1] =
                                   m.data[img_y * m.width + img_x + 1]],
                  m, off_x, y, img_y, img_x + 1)

\* The outer loop of Image::mask, from img_y on.
RECURSIVE mask_rows(_, _, _, _, _)
mask_rows(self, m, off_x, off_y, img_y) ==
    IF img_y >= m.height THEN self
    ELSE IF off_y + img_y < 0 THEN mask_rows(self, m, off_x, off_y, img_y + 1)
    ELSE IF off_y + img_y >= self.height THEN self
    ELSE LET row == mask_row(self, m, off_x, off_y + img_y, img_y, 0)
         IN  IF IsPanic(row) THEN Panic
             ELSE mask_rows(row, m, off_x, off_y, img_y + 1)

\* Image::mask
Image_mask(self, m, off_x, off_y) == mask_rows(self, m, off_x, off_y, 0)

\* The inner loop of Image::overlay, from img_x on.
RECURSIVE overlay_row(_, _, _, _, _, _, _)
overlay_row(self, overlaid, m, off_x, y, img_y, img_x) ==
    IF img_x >= overlaid.width THEN self
    ELSE IF off_x + img_x < 0
    THEN overlay_row(self, overlaid, m, off_x, y, img_y, img_x + 1)
    ELSE IF off_x + img_x >= self.width THEN self
    ELSE IF \/ ~InVec(overlaid.data, xy_to_index(overlaid, img_x, img_y), 4)
            \/ ~InVec(self.data, xy_to_index(self, off_x + img_x, y), 4)
            \/ ~InVec(m.data, img_y * m.width + img_x, 1)
    THEN Panic
    ELSE LET over_color == Image_color(overlaid, img_x, img_y)
             our_color == Image_color(self, off_x + img_x, y)
             over_a == 255 - m.data[img_y * m.width + img_x + 1]
         IN  overlay_row(
               [self EXCEPT !.data =
                   Image_set_color(self, off_x + img_x, y,
                       Image_mix(our_color, [over_color EXCEPT !.a = over_a]))],
               overlaid, m, off_x, y, img_y, img_x + 1)

\* The outer loop of Image::overlay, from img_y on.
RECURSIVE overlay_rows(_, _, _, _, _, _)
overlay_rows(self, overlaid, m, off_x, off_y, img_y) ==
    IF img_y >= overlaid.height THEN self
    ELSE IF off_y + img_y < 0
    THEN overlay_rows(self, overlaid, m, off_x, off_y, img_y + 1)
    ELSE IF off_y + img_y >= self.height THEN self
    ELSE LET row == overlay_row(self, overlaid, m, off_x, off_y + img_y, img_y, 0)
         IN  IF IsPanic(row) THEN Panic
             ELSE overlay_rows(row, overlaid, m, off_x, off_y, img_y + 1)

\* Image::overlay without its first statement, the comparison of the sizes.
overlay_without_size_check(self, overlaid, m, off_x, off_y) ==
    overlay_rows(self, overlaid, m, off_x, off_y, 0)

\* What Image::overlay hands back to its caller: the function returns `()`,
\* from the early `return` as from the end of its body.
overlay_return(overlaid, m) ==
    IF overlaid.width # m.width \/ overlaid.height # m.height THEN "()"
    ELSE "()"

\* Image::overlay: an overlaid image and a mask of different sizes return at
\* once.
Image_overlay(self, overlaid, m, off_x, off_y) ==
    IF overlaid.width # m.width \/ overlaid.height # m.height THEN self
    ELSE overlay_rows(self, overlaid, m, off_x, off_y, 0)

(***************************************************************************)
(* SpecImage: one Image operation applied to a destination.  The inputs    *)
(* are images and buffers of up to MaxDim x MaxDim pixels whose bytes vary *)
(* from pixel to pixel; over the seeds of the full-size images every byte  *)
(* 0..255 occurs as a destination alpha and as a source channel.           *)
(***************************************************************************)
Dims == 1..MaxDim
Offsets == (0 - MaxDim)..MaxDim

RGBA == [tag |-> "RGBA"]

\* The full-size destinations with seeds 0..AlphaStride-1 hold every alpha,
\* the opaque full-size sources with seeds 0..ChannelStride-1 every channel byte.
AlphaStride == (255 \div (MaxDim * MaxDim)) + 1
ChannelStride == (255 \div (3 * MaxDim * MaxDim)) + 1

dst_data(width, height, seed) ==
    [i \in 1..(width * height * 4) |->
        LET px == (i - 1) \div 4 IN
        CASE i % 4 = 1 -> (seed * 3 + 40 * px + 10) % 256
          [] i % 4 = 2 -> (seed * 5 + 70 * px + 200) % 256
          [] i % 4 = 3 -> (seed * 7 + 90 * px + 90) % 256
          [] OTHER -> (seed + AlphaStride * px) % 256]

DstSeeds(width, height) ==
    IF width = MaxDim /\ height = MaxDim THEN 0..(AlphaStride - 1) ELSE {0, 255}

Destinations ==
    UNION {{from_buffer(w, h, dst_data(w, h, seed), RGBA) : seed \in DstSeeds(w, h)}
           : w \in Dims, h \in Dims}

SrcModes == {"transparent", "opaque", "mixed"}

src_data(width, height, mode, seed) ==
    [i \in 1..(width * height * 4) |->
        LET px == (i - 1) \div 4 IN
        IF i % 4 # 0 THEN (seed + ChannelStride * (3 * px + ((i - 1) % 4))) % 256
        ELSE IF mode = "transparent" THEN 0
        ELSE IF mode = "opaque" THEN 255
        ELSE (seed + 90 * px + 1) % 256]

SrcSeeds(width, height, mode) ==
    IF width = MaxDim /\ height = MaxDim /\ mode = "opaque"
    THEN 0..(ChannelStride - 1)
    ELSE {0, 128}

Sources ==
    UNION {{from_buffer(w, h, src_data(w, h, mode, seed), RGBA)
              : seed \in SrcSeeds(w, h, mode)}
           : w \in Dims, h \in Dims, mode \in SrcModes}

\* Raw buffers handed to from_buffer, of the length each interpretation wants.
raw_data(len, seed) == [i \in 1..len |-> (seed + 85 * (i - 1)) % 256]
RawSeeds == {0, 1, 170, 255}

Flag == [colors |-> <<Color(85, 205, 252, 255), Color(255, 255, 255, 255),
                      Color(247, 168, 184, 255)>>,
         stripe_width |-> 1]

ColorsArgs ==
    {[tag |-> "RGBA"], [tag |-> "RGB"], [tag |-> "Grey"],
     [tag |-> "GreyAsAlpha", color |-> Color(10, 20, 30, 40)],
     [tag |-> "GreyAsAlpha", color |-> Color(255, 0, 128, 255)],
     [tag |-> "GreyAsMask", provider |-> Flag]}

\* Masks of every size, and the images overlaid through them.
Masks ==
    {Mask(w, h, raw_data(w * h, seed)) : w \in Dims, h \in Dims, seed \in {0, 170}}

Overlaids ==
    {from_buffer(w, h, src_data(w, h, "mixed", 0), RGBA) : w \in Dims, h \in Dims}

\* The masks tried with an overlaid image: both masks of its size, and one of
\* every other size.
MasksFor(overlaid) ==
    {m \in Masks : \/ (m.width = overlaid.width /\ m.height = overlaid.height)
                   \/ m.data[1] = 0}

\* The destinations that are masked and overlaid: two of every size.
MaskedDestinations ==
    {from_buffer(w, h, dst_data(w, h, seed), RGBA)
        : w \in Dims, h \in Dims, seed \in {0, 1, 255}} \cap Destinations

InitResolverIdle ==
    /\ binary = "textual"
    /\ disk = EmptyDir
    /\ font_cache = <<>>
    /\ InitRequests

InitImage ==
    /\ InitResolverIdle
    /\ image \in Destinations
    /\ before = image
    /\ op = [name |-> "none"]
    /\ InitCallsIdle

\* image.draw_img(img, off_x, off_y); a panic leaves the image as it was
\* before the call.
DrawImg ==
    /\ op.name = "none"
    /\ \E img \in Sources, off_x \in Offsets, off_y \in Offsets :
        \E made \in {draw_img(image, img, off_x, off_y)} :
        /\ before' = image
        /\ image' = IF IsPanic(made) THEN image ELSE made
        /\ op' = [name |-> "draw_img", img |-> img, off_x |-> off_x, off_y |-> off_y,
                  panicked |-> IsPanic(made)]
    /\ UNCHANGED <<resolverVars, callVars>>

\* image = Image::from_buffer(width, height, data, colors); a panic leaves
\* no image behind.
FromBuffer ==
    /\ op.name = "none"
    /\ \E width \in Dims, height \in Dims, colors \in ColorsArgs,
          channels \in {1, 3, 4}, seed \in RawSeeds :
        LET data == raw_data(width * height * channels, seed)
            made == from_buffer(width, height, data, colors)
            panicked == Len(data) # from_buffer_expected_len(width, height, colors)
        IN  /\ before' = image
            /\ image' = IF panicked THEN image ELSE made
            /\ op' = [name |-> "from_buffer", width |-> width, height |-> height,
                      data |-> data, colors |-> colors, panicked |-> panicked]
    /\ UNCHANGED <<resolverVars, callVars>>

\* image.mask(mask, off_x, off_y)
ApplyMask ==
    /\ op.name = "none"
    /\ image \in MaskedDestinations
    /\ \E m \in Masks, off_x \in Offsets, off_y \in Offsets :
        \E made \in {Image_mask(image, m, off_x, off_y)} :
        /\ before' = image
        /\ image' = IF IsPanic(made) THEN image ELSE made
        /\ op' = [name |-> "mask", mask |-> m, off_x |-> off_x, off_y |-> off_y,
                  panicked |-> IsPanic(made)]
    /\ UNCHANGED <<resolverVars, callVars>>

\* image.overlay(overlaid, mask, off_x, off_y)
Overlay ==
    /\ op.name = "none"
    /\ image \in MaskedDestinations
    /\ \E overlaid \in Overlaids, off_x \in Offsets, off_y \in Offsets :
       \E m \in MasksFor(overlaid) :
        \E made \in {Image_overlay(image, overlaid, m, off_x, off_y)} :
        /\ before' = image
        /\ image' = IF IsPanic(made) THEN image ELSE made
        /\ op' = [name |-> "overlay", img |-> overlaid, mask |-> m,
                  off_x |-> off_x, off_y |-> off_y, panicked |-> IsPanic(made),
                  returned |-> overlay_return(overlaid, m)]
    /\ UNCHANGED <<resolverVars, callVars>>

NextImage ==
    \/ DrawImg
    \/ FromBuffer
    \/ ApplyMask
    \/ Overlay

SpecImage == InitImage /\ [][NextImage]_vars

(***************************************************************************)
(* SpecImageSeq: an Image is constructed, and then up to MaxOps of         *)
(* draw_img, mask, overlay and set_color are applied to it in any order.   *)
(* op.width and op.height are the size the image was constructed with.     *)
(***************************************************************************)
MaxOps == 2
SeqDims == {1, 2}
SeqOffsets == {-1, 1}
SeqColor == Color(10, 20, 30, 40)
SeqImage == from_buffer(2, 1, src_data(2, 1, "mixed", 0), RGBA)
SeqMasks == {Mask(2, 1, raw_data(2, 0)), Mask(1, 2, raw_data(2, 170))}

InitImageSeq ==
    /\ InitResolverIdle
    /\ InitImageIdle
    /\ InitCallsIdle

Constructed(name, made) ==
    /\ op.name = "none"
    /\ before' = image
    /\ image' = made
    /\ op' = [name |-> name, steps |-> 0, width |-> made.width, height |-> made.height]
    /\ UNCHANGED <<resolverVars, callVars>>

\* image = Image::with_color(width, height, color)
NewWithColor ==
    \E width \in SeqDims, height \in SeqDims :
        \E made \in {with_color(width, height, SeqColor)} :
            Constructed("with_color", made)

\* image = Image::from_provider(width, height, off_x, off_y, &stripes)
NewFromProvider ==
    \E width \in SeqDims, height \in SeqDims, off \in {0, 1} :
        \E made \in {from_provider(width, height, off, 0, Flag)} :
            Constructed("from_provider", made)

\* image = Image::from_buffer(width, height, data, colors), with a buffer of
\* the length the interpretation wants.
NewFromBuffer ==
    \E width \in SeqDims, height \in SeqDims, colors \in ColorsArgs :
        \E made \in {from_buffer(width, height,
                          raw_data(from_buffer_expected_len(width, height, colors), 170),
                          colors)} :
            Constructed(colors.tag, made)

\* One more call on the image: `made` is what the call leaves, or Panic.
Applied(name, made) ==
    /\ op.name \notin {"none", "panicked"}
    /\ op.steps < MaxOps
    /\ before' = image
    /\ image' = IF IsPanic(made) THEN image ELSE made
    /\ op' = IF IsPanic(made) THEN [op EXCEPT !.name = "panicked"]
             ELSE [op EXCEPT !.name = name, !.steps = @ + 1]
    /\ UNCHANGED <<resolverVars, callVars>>

SeqDrawImg ==
    \E off_x \in SeqOffsets, off_y \in SeqOffsets :
        \E made \in {draw_img(image, SeqImage, off_x, off_y)} :
            Applied("draw_img", made)

SeqMask ==
    \E m \in SeqMasks, off_x \in SeqOffsets :
        \E made \in {Image_mask(image, m, off_x, 0)} :
            Applied("mask", made)

SeqOverlay ==
    \E m \in SeqMasks, off_y \in SeqOffsets :
        \E made \in {Image_overlay(image, SeqImage, m, 0, off_y)} :
            Applied("overlay", made)

\* image.set_color(x, y, color); x and y may lie outside the image.
SeqSetColor ==
    \E x \in {0, 2}, y \in {0, 1} :
        \E made \in {IF InVec(image.data, xy_to_index(image, x, y), 4)
                     THEN [image EXCEPT !.data = Image_set_color(image, x, y, SeqColor)]
                     ELSE Panic} :
            Applied("set_color", made)

NextImageSeq ==
    \/ NewWithColor
    \/ NewFromProvider
    \/ NewFromBuffer
    \/ SeqDrawImg
    \/ SeqMask
    \/ SeqOverlay
    \/ SeqSetColor

SpecImageSeq == InitImageSeq /\ [][NextImageSeq]_vars

(***************************************************************************)
(* Properties of Image (SpecImage).                                        *)
(***************************************************************************)
\* The pixel of img at column x, row y, both counted from 0.
Pixel(img, x, y) ==
    LET i == xy_to_index(img, x, y) IN
    <<img.data[i + 1], img.data[i + 2], img.data[i + 3], img.data[i + 4]>>

AllAlpha(img, a) ==
    \A x \in 0..(img.width - 1), y \in 0..(img.height - 1) : Pixel(img, x, y)[4] = a

\* The destination pixel (x, y) lies under the source drawn at the offset.
Covered(x, y) ==
    /\ 0 <= x - op.off_x /\ x - op.off_x < op.img.width
    /\ 0 <= y - op.off_y /\ y - op.off_y < op.img.height

\* C8: draw_img of a source whose every pixel has alpha 0 leaves every byte of
\* the destination as it was.
C8_TransparentSourceChangesNothing ==
    (op.name = "draw_img" /\ AllAlpha(op.img, 0)) => image = before

\* A transparent source was drawn over a destination pixel of other colour,
\* and over one of alpha 0.
C8_Witness ==
    /\ op.name = "draw_img" /\ AllAlpha(op.img, 0)
    /\ \E x \in 0..(before.width - 1), y \in 0..(before.height - 1) :
        /\ Covered(x, y)
        /\ Pixel(before, x, y)[1] # Pixel(op.img, x - op.off_x, y - op.off_y)[1]
        /\ Pixel(before, x, y)[4] \notin {0, 255}
    /\ \E x \in 0..(before.width - 1), y \in 0..(before.height - 1) :
        /\ Covered(x, y)
        /\ Pixel(before, x, y)[1] # Pixel(op.img, x - op.off_x, y - op.off_y)[1]
        /\ Pixel(before, x, y)[4] = 0

\* C9: draw_img of a source whose every pixel has alpha 255 makes each
\* destination pixel under the source (R, G, B, 255) of the source pixel,
\* whatever the destination's alpha was, and leaves every other pixel alone.
C9_OpaqueSourceReplaces ==
    (op.name = "draw_img" /\ AllAlpha(op.img, 255)) =>
        /\ image.width = before.width /\ image.height = before.height
        /\ Len(image.data) = Len(before.data)
        /\ \A x \in 0..(before.width - 1), y \in 0..(before.height - 1) :
            Pixel(image, x, y) =
                IF Covered(x, y)
                THEN LET src == Pixel(op.img, x - op.off_x, y - op.off_y)
                     IN  <<src[1], src[2], src[3], 255>>
                ELSE Pixel(before, x, y)

\* An opaque source hanging over the left edge was drawn; it covers a pixel
\* of alpha 0 and one of partial alpha, and leaves one uncovered.
C9_Witness ==
    /\ op.name = "draw_img" /\ AllAlpha(op.img, 255)
    /\ op.off_x < 0
    /\ \E x \in 0..(before.width - 1), y \in 0..(before.height - 1) :
        Covered(x, y) /\ Pixel(before, x, y)[4] = 0
    /\ \E x \in 0..(before.width - 1), y \in 0..(before.height - 1) :
        Covered(x, y) /\ Pixel(before, x, y)[4] \notin {0, 255}
    /\ \E x \in 0..(before.width - 1), y \in 0..(before.height - 1) :
        ~Covered(x, y)

\* C10: from_buffer with GreyAsAlpha(color) on a coverage buffer of length
\* width * height makes the width x height image whose pixel i, in row-major
\* order, is (color.r, color.g, color.b, coverage[i]).
C10_GreyAsAlphaPixels ==
    (/\ op.name = "from_buffer"
     /\ op.colors.tag = "GreyAsAlpha"
     /\ Len(op.data) = op.width * op.height) =>
        /\ ~op.panicked
        /\ image.width = op.width /\ image.height = op.height
        /\ Len(image.data) = 4 * op.width * op.height
        /\ \A x \in 0..(op.width - 1), y \in 0..(op.height - 1) :
            Pixel(image, x, y) = <<op.colors.color.r, op.colors.color.g,
                                   op.colors.color.b, op.data[y * op.width + x + 1]>>

\* An image of several rows and columns was made from a coverage buffer whose
\* bytes differ from each other and from the colour's channels.
C10_Witness ==
    /\ op.name = "from_buffer" /\ op.colors.tag = "GreyAsAlpha" /\ ~op.panicked
    /\ op.width > 1 /\ op.height > 1
    /\ op.data[1] # op.data[2]
    /\ op.data[2] # op.data[op.width + 1]
    /\ op.colors.color.r # op.colors.color.g
    /\ op.colors.color.g # op.colors.color.b
    /\ op.data[1] # op.colors.color.a

\* The overlaid image and the mask of the overlay differ in size.
Mismatched == op.img.width # op.mask.width \/ op.img.height # op.mask.height

\* C14: overlay with an overlaid image and a mask of different sizes leaves
\* every byte of the destination as it was, and does not panic (no index is
\* outside its Vec).
C14_MismatchedOverlayChangesNothing ==
    (op.name = "overlay" /\ Mismatched) => (~op.panicked /\ image = before)

\* An overlay with a mask narrower than the overlaid image was applied where
\* the whole overlaid image lies on the destination, over a pixel the mask
\* does not make transparent.
C14_Witness ==
    /\ op.name = "overlay" /\ Mismatched
    /\ op.mask.width < op.img.width
    /\ op.off_x = 0 /\ op.off_y = 0
    /\ op.img.width <= before.width /\ op.img.height <= before.height
    /\ op.mask.data[1] # 255
    /\ Pixel(before, 0, 0) # Pixel(op.img, 0, 0)

\* C15: an overlay with an overlaid image and a mask of different sizes hands
\* its caller a DimensionMismatch error.
C15_MismatchIsReported ==
    (op.name = "overlay" /\ Mismatched) => op.returned = "DimensionMismatch"

\* The image or mask that draw_img or mask was given.
Drawn == IF op.name = "mask" THEN op.mask ELSE op.img

\* The destination pixel (x, y) lies under the drawn image or mask.
Under(x, y) ==
    /\ 0 <= x - op.off_x /\ x - op.off_x < Drawn.width
    /\ 0 <= y - op.off_y /\ y - op.off_y < Drawn.height

\* The drawn image or mask lies entirely outside the destination.
Outside == \A x \in 0..(before.width - 1), y \in 0..(before.height - 1) : ~Under(x, y)

\* C16: draw_img and mask do not panic and keep the size of the destination;
\* they change no pixel that is not under the drawn image, so one entirely
\* outside the destination changes nothing.
C16_DrawsOnlyInBounds ==
    op.name \in {"draw_img", "mask"} =>
        /\ ~op.panicked
        /\ image.width = before.width /\ image.height = before.height
        /\ Len(image.data) = Len(before.data)
        /\ \A x \in 0..(before.width - 1), y \in 0..(before.height - 1) :
            ~Under(x, y) => Pixel(image, x, y) = Pixel(before, x, y)
        /\ Outside => image = before

\* A mask hanging over the left and the bottom edge of a destination of
\* several rows was applied: it changed a pixel, and left a row alone.
C16_Witness ==
    /\ op.name = "mask"
    /\ op.off_x < 0 /\ op.off_y + op.mask.height > before.height
    /\ before.height > 1
    /\ image # before
    /\ \E y \in 0..(before.height - 1) : ~Under(0, y)

\* C23: mask gives every destination pixel under the mask the mask's byte at
\* the corresponding place as its alpha and keeps its red, green and blue;
\* every other pixel keeps all four bytes.
C23_MaskChangesOnlyAlpha ==
    op.name = "mask" =>
        \A x \in 0..(before.width - 1), y \in 0..(before.height - 1) :
            Pixel(image, x, y) =
                IF Under(x, y)
                THEN <<Pixel(before, x, y)[1], Pixel(before, x, y)[2],
                       Pixel(before, x, y)[3],
                       op.mask.data[(y - op.off_y) * op.mask.width + (x - op.off_x) + 1]>>
                ELSE Pixel(before, x, y)

\* A mask of several rows and columns was applied at an offset: it lies over
\* a pixel whose alpha and whose red differ from the mask's byte there, and
\* not over another pixel.
C23_Witness ==
    /\ op.name = "mask" /\ op.mask.width > 1 /\ op.mask.height > 1
    /\ op.off_x # 0 /\ op.off_y # 0
    /\ \E x \in 0..(before.width - 1), y \in 0..(before.height - 1) :
        /\ Under(x, y)
        /\ Pixel(before, x, y)[4] # Pixel(image, x, y)[4]
        /\ Pixel(before, x, y)[1] # Pixel(image, x, y)[4]
    /\ \E x \in 0..(before.width - 1), y \in 0..(before.height - 1) : ~Under(x, y)

\* An image or mask that is not transparent was drawn entirely outside the
\* destination.
C16_OutsideWitness ==
    /\ op.name \in {"draw_img", "mask"}
    /\ Outside
    /\ Drawn.data[Len(Drawn.data)] # 0

(***************************************************************************)
(* The padding of Operation::make_image.  layout.width() and               *)
(* layout.height() are f32; here they hold whole numbers of pixels.        *)
(***************************************************************************)
\* `n as f32` for a usize below 2^24: exact.
f32_from_usize(n) == f32_normalize(n, 0)

\* a < b
f32_lt(a, b) ==
    IF b.m = 0 THEN FALSE
    ELSE IF a.m = 0 THEN TRUE
    ELSE a.e < b.e \/ (a.e = b.e /\ a.m < b.m)

\* `x.ceil() as usize`, for x below 2^24.
f32_ceil_as_usize(x) ==
    IF x.m = 0 THEN 0
    ELSE IF x.e >= 0 THEN x.m * (2 ^ x.e)
    ELSE IF x.e <= -24 THEN 1
    ELSE LET d == 2 ^ (0 - x.e) IN
         IF x.m % d = 0 THEN x.m \div d ELSE x.m \div d + 1

\* `(a - b).ceil() as usize`: a negative difference casts to 0.
f32_sub_ceil_as_usize(a, b) ==
    IF f32_lt(a, b) THEN 0 ELSE f32_ceil_as_usize(f32_sub(a, b))

\* What a block of make_image evaluates to: a pair of paddings, or a panic.
Paddings(horizontal_pad, vertical_pad) ==
    [tag |-> "ok", horizontal_pad |-> horizontal_pad, vertical_pad |-> vertical_pad]

\* usize a - b.  With overflow checks (a debug build) a - b below zero
\* panics; without them it wraps to 2^64 + (a - b), which is written here as
\* the negative number a - b.
usize_sub(a, b, overflow_checks) ==
    IF a < b /\ overflow_checks THEN Panic ELSE [tag |-> "ok", value |-> a - b]

\* The `(horizontal_pad, vertical_pad)` block of make_image, for
\* self.aspect = Some(ratio).
make_image_padding(width, height, padding, ratio, overflow_checks) ==
    LET w == f32_from_usize(width)
        h == f32_from_usize(height)
        current_ratio == f32_div(w, h)
    IN  IF f32_lt(current_ratio, ratio)
        THEN LET needed_padding ==
                     f32_sub_ceil_as_usize(
                         f32_mul(f32_add(h, f32_from_usize(padding)), ratio), w)
                 under == usize_sub(needed_padding, padding, overflow_checks)
             IN  IF needed_padding < padding
                 THEN IF under.tag = "panic" THEN Panic
                      ELSE Paddings(needed_padding, under.value)
                 ELSE Paddings(needed_padding, padding)
        ELSE IF f32_lt(ratio, current_ratio)
        THEN LET needed_padding ==
                     f32_sub_ceil_as_usize(
                         f32_div(f32_add(w, f32_from_usize(padding)), ratio), h)
                 under == usize_sub(needed_padding, padding, overflow_checks)
             IN  IF needed_padding < padding
                 THEN IF under.tag = "panic" THEN Panic
                      ELSE Paddings(under.value, needed_padding)
                 ELSE Paddings(padding, needed_padding)
        ELSE Paddings(padding, padding)

(***************************************************************************)
(* The loop of make_image over the runs of an Operation.  A run is a Text  *)
(* [text, font, font_weight, font_style]; the loop keeps                   *)
(*   fonts:  the faces of the Vec<(FontFace, Arc<Font>)>, in order,        *)
(*   got:    the calls of Text::get_font, in order,                        *)
(*   layout: the StyledText handed to layout.append, in order,             *)
(*   index:  the `index` computed for each run, counted from 0.            *)
(***************************************************************************)
unwrap_or(option, default) == IF option = None THEN default ELSE option[1]

\* Text::font_variant
Text_font_variant(text) ==
    FontVariant_new(unwrap_or(text.font_weight, "Regular"),
                    unwrap_or(text.font_style, "Normal"))

\* FontFace::new(text.font.clone().unwrap_or_default(), text.font_variant())
FontFace_of(text) ==
    [typeface |-> unwrap_or(text.font, ""), variant |-> Text_font_variant(text)]

\* The index of the first element of fonts equal to fontface, counted from 0;
\* None when there is none.
position(fonts, fontface) ==
    IF \E i \in 1..Len(fonts) : fonts[i] = fontface
    THEN Some((CHOOSE i \in 1..Len(fonts) :
                  /\ fonts[i] = fontface
                  /\ \A j \in 1..(i - 1) : fonts[j] # fontface) - 1)
    ELSE None

\* Text::get_font: provider.variant(font, variant) for a named font,
\* default_font() for none.
get_font(text) ==
    IF text.font # None
    THEN [via |-> "variant", font |-> text.font, variant |-> Text_font_variant(text)]
    ELSE [via |-> "default_font", font |-> None, variant |-> Text_font_variant(text)]

\* One iteration that pushes and resolves a font for every run.
make_image_text_always_push(st, text) ==
    LET pushed == [st EXCEPT !.fonts = Append(@, FontFace_of(text)),
                             !.got = Append(@, get_font(text)),
                             !.index = Append(@, Len(st.fonts))]
    IN  IF Len(text.text) = 0 THEN pushed
        ELSE [pushed EXCEPT !.layout =
                 Append(@, [text |-> text.text, font_index |-> Len(st.fonts)])]

\* One iteration with `if text.text.len() == 0 { continue; }` as its first
\* statement.
make_image_text_skip_first(st, text) ==
    IF Len(text.text) = 0 THEN [st EXCEPT !.index = Append(@, 0)]
    ELSE LET hit == position(st.fonts, FontFace_of(text))
             index == IF hit # None THEN hit[1] ELSE Len(st.fonts)
             looked == IF hit # None THEN st
                       ELSE [st EXCEPT !.fonts = Append(@, FontFace_of(text)),
                                       !.got = Append(@, get_font(text))]
         IN  [looked EXCEPT !.index = Append(@, index),
                            !.layout = Append(@, [text |-> text.text,
                                                  font_index |-> index])]

\* One iteration of `for text in &self.texts`.
make_image_text(st, text) ==
    LET hit == position(st.fonts, FontFace_of(text))
        index == IF hit # None THEN hit[1] ELSE Len(st.fonts)
        looked == IF hit # None THEN st
                  ELSE [st EXCEPT !.fonts = Append(@, FontFace_of(text)),
                                  !.got = Append(@, get_font(text))]
        indexed_run == [looked EXCEPT !.index = Append(@, index)]
    IN  IF Len(text.text) = 0 THEN indexed_run
        ELSE [indexed_run EXCEPT !.layout =
                 Append(@, [text |-> text.text, font_index |-> index])]

\* The loop, from the run at position i on.
RECURSIVE make_image_texts(_, _, _)
make_image_texts(st, texts, i) ==
    IF i > Len(texts) THEN st
    ELSE make_image_texts(make_image_text(st, texts[i]), texts, i + 1)

make_image_fonts(texts) ==
    make_image_texts([fonts |-> <<>>, got |-> <<>>, layout |-> <<>>, index |-> <<>>],
                     texts, 1)

(***************************************************************************)
(* SpecCalls: one call of a function of the program on bounded arguments.  *)
(***************************************************************************)
\* Content sizes in pixels, flat paddings 0..MaxPadding, and target ratios
\* num / den over 1..MaxRatio.
Extents == {1, 10, 50, 100}
MaxPadding == 20
MaxRatio == 5

InitCalls ==
    /\ InitResolverIdle
    /\ InitImageIdle
    /\ InitCallsIdle

\* variant.to_string(), then the text parsed back.
FormatParse ==
    /\ call.name = "none"
    /\ \E variant \in FontVariants :
        /\ call' = [name |-> "format_parse", variant |-> variant,
                    text |-> FontVariant_fmt(variant)]
        /\ ret' = FontVariant_parse(FontVariant_fmt(variant))
    /\ UNCHANGED <<resolverVars, imageVars>>

\* The padding block of make_image with aspect = Some(num / den).
Padding ==
    /\ call.name = "none"
    /\ \E width \in Extents, height \in Extents, padding \in 0..MaxPadding,
          num \in 1..MaxRatio, den \in 1..MaxRatio, overflow_checks \in BOOLEAN :
        /\ call' = [name |-> "padding", width |-> width, height |-> height,
                    padding |-> padding, num |-> num, den |-> den,
                    overflow_checks |-> overflow_checks]
        /\ ret' = make_image_padding(width, height, padding,
                       f32_div(f32_from_usize(num), f32_from_usize(den)),
                       overflow_checks)
    /\ UNCHANGED <<resolverVars, imageVars>>

\* The runs of an Operation: with and without text, with no font, a named
\* font and the empty name, with and without a weight.
MaxTexts == 3
Texts ==
    [text : {"", "a"}, font : {None, Some("Lato"), Some("")},
     font_weight : {None, Some("Bold")}, font_style : {None}]

\* The loop of make_image over self.texts.
MakeImage ==
    /\ call.name = "none"
    /\ \E n \in 1..MaxTexts : \E texts \in [1..n -> Texts] :
        /\ call' = [name |-> "make_image", texts |-> texts]
        /\ ret' = make_image_fonts(texts)
    /\ UNCHANGED <<resolverVars, imageVars>>

\* Color::new of each crate that defines Color: src/src/color.rs declares
\* its parameters as (r, b, g, a), src/fastly/src/color.rs as (r, g, b, a);
\* both build `Self { r, g, b, a }` from the parameters of those names.
Crates == {"textual", "fastly"}
Color_new(crate, first, second, third, fourth) ==
    IF crate = "textual"
    THEN [r |-> first, b |-> second, g |-> third, a |-> fourth]
    ELSE [r |-> first, g |-> second, b |-> third, a |-> fourth]

\* The associated constants of Color, the same lines in both crates.
ColorNames ==
    {"TRANSPARENT", "BLACK", "RED", "GREEN", "BLUE", "YELLOW", "FUCHSIA", "AQUA", "WHITE"}
Color_const(crate, name) ==
    CASE name = "TRANSPARENT" -> Color_new(crate, 0, 0, 0, 0)
      [] name = "BLACK" -> Color_new(crate, 0, 0, 0, 255)
      [] name = "RED" -> Color_new(crate, 255, 0, 0, 255)
      [] name = "GREEN" -> Color_new(crate, 0, 255, 0, 255)
      [] name = "BLUE" -> Color_new(crate, 0, 0, 255, 255)
      [] name = "YELLOW" -> Color_new(crate, 255, 255, 0, 255)
      [] name = "FUCHSIA" -> Color_new(crate, 255, 0, 255, 255)
      [] name = "AQUA" -> Color_new(crate, 0, 255, 255, 255)
      [] name = "WHITE" -> Color_new(crate, 255, 255, 255, 255)

\* A read of Color::<name> in one crate.
NamedColor ==
    /\ call.name = "none"
    /\ \E crate \in Crates, name \in ColorNames :
        /\ call' = [name |-> "color_const", crate |-> crate, constant |-> name]
        /\ ret' = Color_const(crate, name)
    /\ UNCHANGED <<resolverVars, imageVars>>

\* Spellings of weight and style names, in lower, capitalised and upper case.
Spellings ==
    { <<"bold">>, <<"Bold">>, <<"BOLD">>, <<"thin">>, <<"Thin">>, <<"heavy">>,
      <<"Heavy">>, <<"regular">>, <<"Regular">>, <<"extra", "-", "bold">>,
      <<"Extra", "-", "Bold">>, <<"700">>,
      <<"normal">>, <<"Normal">>, <<"NORMAL">>, <<"italic">>, <<"Italic">>,
      <<"ITALIC">>, <<"oblique">>, <<"Oblique">>, <<"OBLIQUE">> }

\* s.parse::<FontWeight>() and s.parse::<FontStyle>() of one spelling.
ParseName ==
    /\ call.name = "none"
    /\ \E s \in Spellings :
        /\ call' = [name |-> "parse_name", s |-> s]
        /\ ret' = [weight |-> FontWeight_from_str(s), style |-> FontStyle_from_str(s)]
    /\ UNCHANGED <<resolverVars, imageVars>>

\* A glyph position is an f32, here a number of half pixels h >= 0 that
\* stands for h / 2.  `x as isize` truncates, `x.ceil() as isize` rounds up.
as_isize(h) == h \div 2
ceil_as_isize(h) == (h + 1) \div 2

\* Operation::glyph for Visual::Pattern: the pattern over the glyph's box,
\* with the raster as its alpha.  set_from_buf at (0, 0) of a buffer of the
\* mask's size copies the raster.
Operation_glyph(width, height, raster, glyph_x, glyph_y, off_x, off_y, arcpat) ==
    LET x == ceil_as_isize(glyph_x) + off_x
        y == ceil_as_isize(glyph_y) + off_y
    IN  Image_mask(from_provider(width, height, x, y, arcpat),
                   Mask(width, height, raster), 0, 0)

\* One turn of `for glyph in layout.glyphs()` in make_image for a glyph of a
\* patterned run: the glyph image, and where draw_img puts it.
MaxPen == 2
GlyphPattern ==
    /\ call.name = "none"
    /\ \E width \in SeqDims, height \in SeqDims, off_x \in {0, 1}, off_y \in {0, 1},
          glyph_x \in 0..(2 * MaxPen), glyph_y \in 0..(2 * MaxPen) :
        /\ call' = [name |-> "glyph", width |-> width, height |-> height,
                    glyph_x |-> glyph_x, glyph_y |-> glyph_y,
                    off_x |-> off_x, off_y |-> off_y]
        /\ ret' = [glyph |-> Operation_glyph(width, height, raw_data(width * height, 170),
                                             glyph_x, glyph_y, off_x, off_y, Flag),
                   x |-> as_isize(glyph_x) + off_x,
                   y |-> as_isize(glyph_y) + off_y]
    /\ UNCHANGED <<resolverVars, imageVars>>

\* The entries a cache directory may hold: names that parse, with and
\* without an extension and with a family of several words, names that do not
\* (no '-', no ' ', an unknown weight, an unknown style), and a name that is
\* not UTF-8.  Each is a regular file or a directory.
MaxEntries == 2
EntryNames ==
    { <<"Lato", "-", "bold", " ", "italic", ".ttf">>,
      <<"Lato", "-", "bold", " ", "italic", ".otf">>,
      <<"Open", " ", "Sans", "-", "400", " ", "normal">>,
      <<"README">>,
      <<"Lato", "-", "bold">>,
      <<"Lato", "-", "fat", " ", "italic", ".ttf">>,
      <<"Lato", "-", "bold", " ", "slanted", ".ttf">>,
      <<NotUtf8, "-", "bold", " ", "italic", ".ttf">> }
Directories ==
    UNION {[names -> {File(<<>>), Dir}] :
              names \in {n \in SUBSET EntryNames : Cardinality(n) <= MaxEntries}}

\* FontCache::new(location) on a directory that can be read.
Populate ==
    /\ call.name = "none"
    /\ \E dir \in Directories : \E made \in FontCache_new(dir) :
        /\ call' = [name |-> "populate", dir |-> dir]
        /\ ret' = made
    /\ UNCHANGED <<resolverVars, imageVars>>

\* Family names, some with '-', ' ' and '.' in them.
Families ==
    { Lato, <<"Open", " ", "Sans">>, <<"Exo", "-", "2">>,
      <<"M", " ", "PLUS", "-", "1", ".", "5">>, <<"-", "A", "-", " ">> }

\* save_font writes one more file into a cache directory, the process is
\* started again and FontCache::new scans the directory.
SaveRestart ==
    /\ call.name = "none"
    /\ \E name \in Families, variant \in FontVariants, dir \in InitialDirs :
        \E made \in FontCache_new((save_font_fname(name, variant)
                                      :> File(remote("https://fonts/lato-regular"))) @@ dir) :
            /\ call' = [name |-> "save_restart", family |-> name, variant |-> variant,
                        dir |-> dir]
            /\ ret' = made
    /\ UNCHANGED <<resolverVars, imageVars>>

\* A hostname is a sequence of characters.  str::find of a character: the
\* index of its first occurrence, counted from 0.
str_find(string, c) ==
    LET at == {i \in 1..Len(string) : string[i] = c} IN
    IF at = {} THEN None ELSE Some((CHOOSE i \in at : \A j \in at : i <= j) - 1)

\* str::strip_prefix.
strip_prefix(string, prefix) ==
    IF Len(string) >= Len(prefix) /\ SubSeq(string, 1, Len(prefix)) = prefix
    THEN Some(SubSeq(string, Len(prefix) + 1, Len(string)))
    ELSE None

\* str::contains of a pattern string: the pattern occurs somewhere in it.
str_contains(string, pattern) ==
    \E i \in 0..(Len(string) - Len(pattern)) :
        SubSeq(string, i + 1, i + Len(pattern)) = pattern

https == <<"h", "t", "t", "p", "s">>
http == <<"h", "t", "t", "p">>

\* Config::parse_hostname.
parse_hostname(string) ==
    LET ind == str_find(string, ":")
        scheme == SubSeq(string, 1, unwrap(ind))
        host == strip_prefix(SubSeq(string, unwrap(ind) + 1, Len(string)), <<":", "/", "/">>)
    IN  IF ind = None THEN [tag |-> "Ok", scheme |-> None, host |-> string]
        ELSE IF host = None THEN [tag |-> "HostnameParseError", string |-> string]
        ELSE IF ~str_contains(https, scheme) THEN [tag |-> "InvalidScheme", scheme |-> scheme]
        ELSE [tag |-> "Ok", scheme |-> Some(scheme), host |-> unwrap(host)]

\* The hostnames tried: a scheme of up to MaxScheme letters, "://" or a
\* broken separator or none, and a host.
MaxScheme == 5
Schemes == UNION {[1..n -> {"h", "t", "p", "s", "x"}] : n \in 0..MaxScheme}
Separators == {<<":", "/", "/">>, <<":", "/">>, <<>>}
Hostnames == {scheme \o sep \o <<"a", ".", "b">> : scheme \in Schemes, sep \in Separators}

ParseHostname ==
    /\ call.name = "none"
    /\ \E string \in Hostnames :
        /\ call' = [name |-> "parse_hostname", string |-> string]
        /\ ret' = parse_hostname(string)
    /\ UNCHANGED <<resolverVars, imageVars>>

(***************************************************************************)
(* The query parameters of a request, applied one by one to                *)
(* Operation::default() (From<Query> for Operation).  A String is a        *)
(* sequence of tokens.                                                     *)
(***************************************************************************)
VisualColor(c) == [tag |-> "Color", color |-> c]
VisualPattern(stripes) == [tag |-> "Pattern", stripes |-> stripes]

Text_default ==
    [text |-> <<>>, font |-> None, font_weight |-> None, font_style |-> None,
     fontsize |-> 128, visual |-> VisualColor(Color_const("textual", "WHITE"))]

Operation_default ==
    [bvisual |-> VisualColor(Color_const("textual", "TRANSPARENT")),
     texts |-> <<Text_default>>,
     line_height |-> "Smallest 1.05", padding |-> 32, align |-> "Left",
     forceraw |-> FALSE, aspect |-> None]

\* value.parse::<f32>() and value.parse::<usize>() of the numbers the
\* parameters hold; None for Err.  Each is exact in f32.
parse_number(value) ==
    CASE value = <<"2">> -> Some(2)
      [] value = <<"4">> -> Some(4)
      [] value = <<"8">> -> Some(8)
      [] value = <<"64">> -> Some(64)
      [] OTHER -> None

\* Operation::color: the colour names, and the two hex colours of the model.
Operation_color(s) ==
    CASE s = <<"transparent">> -> Some(Color_const("textual", "TRANSPARENT"))
      [] s = <<"black">> -> Some(Color_const("textual", "BLACK"))
      [] s = <<"red">> -> Some(Color_const("textual", "RED"))
      [] s = <<"green">> -> Some(Color_const("textual", "GREEN"))
      [] s = <<"blue">> -> Some(Color_const("textual", "BLUE"))
      [] s = <<"yellow">> -> Some(Color_const("textual", "YELLOW"))
      [] s \in {<<"fuchsia">>, <<"magenta">>} -> Some(Color_const("textual", "FUCHSIA"))
      [] s \in {<<"aqua">>, <<"cyan">>} -> Some(Color_const("textual", "AQUA"))
      [] s = <<"white">> -> Some(Color_const("textual", "WHITE"))
      [] s = <<"7f7f7f">> -> Some(Color(127, 127, 127, 255))
      [] s = <<"64349A">> -> Some(Color(100, 52, 154, 255))
      [] OTHER -> None

color_or(string, color) ==
    IF string = None THEN color
    ELSE unwrap_or(Operation_color(unwrap(string)), color)

\* (text.fontsize / 8.0) as usize for a whole fontsize: the quotient is exact
\* in f32, the cast truncates and takes a negative value to 0.
stripe_width_of(fontsize) == IF fontsize < 0 THEN 0 ELSE fontsize \div 8

\* Operation::pattern.
Operation_pattern(text, string) ==
    CASE string = <<"trans">> ->
            Some(VisualPattern([colors |-> <<Color(85, 205, 252, 255),
                                            Color_const("textual", "WHITE"),
                                            Color(247, 168, 184, 255)>>,
                                stripe_width |-> stripe_width_of(text.fontsize)]))
      [] string = <<"enby">> ->
            Some(VisualPattern([colors |-> <<Color(255, 244, 48, 255),
                                            Color_const("textual", "WHITE"),
                                            Color(156, 89, 209, 255),
                                            Color_const("textual", "BLACK")>>,
                                stripe_width |-> stripe_width_of(text.fontsize)]))
      [] string = <<"ace">> ->
            Some(VisualPattern([colors |-> <<Color_const("textual", "BLACK"),
                                            unwrap(Operation_color(<<"7f7f7f">>)),
                                            Color_const("textual", "WHITE"),
                                            unwrap(Operation_color(<<"64349A">>))>>,
                                stripe_width |-> stripe_width_of(text.fontsize)]))
      [] OTHER -> None

\* Operation::line_height for the values of the model.
Operation_line_height(height) ==
    IF height = <<"font">> THEN Some("Font") ELSE None

Parsed(name) == IF name = "Err" THEN None ELSE Some(name)

\* The `text` arm with Text::default() pushed, not a clone of the current run.
parse_value_text_push_default(self, value) ==
    LET n == Len(self.texts) IN
    [self EXCEPT !.texts = Append([self.texts EXCEPT ![n] =
                                      [self.texts[n] EXCEPT !.text = value]],
                                  Text_default)]

\* The `text` arm of parse_value: the current run gets the text, and a clone
\* of the run as it was before (its text is empty) is pushed after it.
parse_value_text(self, value) ==
    LET n == Len(self.texts) IN
    [self EXCEPT !.texts = Append([self.texts EXCEPT ![n] =
                                      [self.texts[n] EXCEPT !.text = value]],
                                  self.texts[n])]

\* Operation::parse_value.
parse_value(self, key, value) ==
    LET n == Len(self.texts)
        current == self.texts[n]
        with(text) == [self EXCEPT !.texts[n] = text]
        pat == Operation_pattern(current, value)
    IN  IF self.texts = <<>> THEN Panic
        ELSE IF key = "text"
        THEN parse_value_text(self, value)
        ELSE IF key = "font" THEN with([current EXCEPT !.font = Some(value)])
        ELSE IF key \in {"weight", "fontweight"}
        THEN with([current EXCEPT !.font_weight = Parsed(FontWeight_from_str(value))])
        ELSE IF key \in {"style", "fontstyle"}
        THEN with([current EXCEPT !.font_style = Parsed(FontStyle_from_str(value))])
        ELSE IF key \in {"fs", "fontsize"}
        THEN with([current EXCEPT !.fontsize =
                      unwrap_or(parse_number(value), Text_default.fontsize)])
        ELSE IF key \in {"c", "color", "colour"}
        THEN with([current EXCEPT !.visual =
                      VisualColor(color_or(Some(value), Color_const("textual", "WHITE")))])
        ELSE IF key = "pattern"
        THEN (IF pat = None THEN self ELSE with([current EXCEPT !.visual = unwrap(pat)]))
        ELSE IF key = "align"
        THEN [self EXCEPT !.align = IF value = <<"center">> THEN "Center"
                                    ELSE IF value = <<"right">> THEN "Right"
                                    ELSE "Left"]
        ELSE IF key = "aspect" THEN [self EXCEPT !.aspect = parse_number(value)]
        ELSE IF key \in {"bc", "bcolor", "bcolour"}
        THEN [self EXCEPT !.bvisual =
                 VisualColor(color_or(Some(value), Color_const("textual", "WHITE")))]
        ELSE IF key = "bpattern"
        THEN (IF pat = None THEN self ELSE [self EXCEPT !.bvisual = unwrap(pat)])
        ELSE IF key = "pad"
        THEN [self EXCEPT !.padding =
                 unwrap_or(parse_number(value), Operation_default.padding)]
        ELSE IF key \in {"lh", "lineheight"}
        THEN [self EXCEPT !.line_height =
                 unwrap_or(Operation_line_height(value), Operation_default.line_height)]
        ELSE self

\* Operation::parse_bool.
parse_bool(self, name) ==
    IF name = "forceraw" THEN [self EXCEPT !.forceraw = TRUE] ELSE self

\* Operation::push_parameter.
ParameterValue(key, value) == [kind |-> "Value", key |-> key, value |-> value]
ParameterBool(name) == [kind |-> "Bool", key |-> name, value |-> <<>>]
push_parameter(self, parameter) ==
    IF parameter.kind = "Bool" THEN parse_bool(self, parameter.key)
    ELSE parse_value(self, parameter.key, parameter.value)

\* The parameters a query may hold.
MaxParams == 3
Parameters ==
    { ParameterValue("text", <<"a">>), ParameterValue("text", <<"b">>),
      ParameterValue("font", Lato),
      ParameterValue("weight", <<"bold">>), ParameterValue("fontweight", <<"junk">>),
      ParameterValue("style", <<"italic">>),
      ParameterValue("fs", <<"4">>), ParameterValue("fontsize", <<"junk">>),
      ParameterValue("c", <<"red">>),
      ParameterValue("pattern", <<"trans">>), ParameterValue("pattern", <<"junk">>),
      ParameterValue("align", <<"center">>), ParameterValue("aspect", <<"2">>),
      ParameterValue("bc", <<"black">>), ParameterValue("bpattern", <<"ace">>),
      ParameterValue("pad", <<"8">>), ParameterValue("lh", <<"font">>),
      ParameterValue("other", <<"a">>), ParameterBool("forceraw") }

\* SpecQuery: `call` holds the parameters applied so far, `ret` the Operation.
InitQuery ==
    /\ InitResolverIdle
    /\ InitImageIdle
    /\ call = [name |-> "from_query", applied |-> <<>>]
    /\ ret = Operation_default

\* One turn of `for param in query.into_iter()`.
PushParameter ==
    /\ call.name = "from_query"
    /\ Len(call.applied) < MaxParams
    /\ ~IsPanic(ret)
    /\ \E parameter \in Parameters :
        /\ call' = [call EXCEPT !.applied = Append(@, parameter)]
        /\ ret' = push_parameter(ret, parameter)
    /\ UNCHANGED <<resolverVars, imageVars>>

NextQuery == PushParameter

SpecQuery == InitQuery /\ [][NextQuery]_vars

NextCalls ==
    \/ FormatParse
    \/ Padding
    \/ MakeImage
    \/ Populate
    \/ NamedColor
    \/ ParseName
    \/ GlyphPattern
    \/ ParseHostname
    \/ SaveRestart

SpecCalls == InitCalls /\ [][NextCalls]_vars

(***************************************************************************)
(* Properties of the pure functions (SpecCalls).                           *)
(***************************************************************************)
\* C11: parsing is the inverse of Display for font variants: for each of the
\* 10 weights and 3 styles, the text Display writes parses back to the same
\* FontVariant.
C11_ParseInvertsDisplay ==
    call.name = "format_parse" => ret = Some(call.variant)

\* A variant other than the default was written and read back.
C11_Witness ==
    /\ call.name = "format_parse"
    /\ call.variant = FontVariant_new("ExtraBlack", "Oblique")
    /\ call.text = <<"extrablack", " ", "oblique">>
    /\ ret # None

\* The target ratio num / den against the content ratio width / height.

(***************************************************************************)
(* Aspect-ratio padding.                                                   *)
(***************************************************************************)
\* The target ratio of the call as the f32 the program holds, and the content
\* ratio as the program computes it.
TargetRatio == f32_div(f32_from_usize(call.num), f32_from_usize(call.den))
ContentRatio == f32_div(f32_from_usize(call.width), f32_from_usize(call.height))
RatioLarger == f32_lt(ContentRatio, TargetRatio)
RatioSmaller == f32_lt(TargetRatio, ContentRatio)

\* floor(m * n / 2^k) for a 24-bit m and k >= 12, in 32-bit steps.
MulShr(m, n, k) ==
    ((m \div 4096) * n + ((m % 4096) * n) \div 4096) \div (2 ^ (k - 12))
\* m * n is a multiple of 2^k.
MulShrExact(m, n, k) ==
    /\ ((m % 4096) * n) % 4096 = 0
    /\ ((m \div 4096) * n + ((m % 4096) * n) \div 4096) % (2 ^ (k - 12)) = 0

\* (width + w_pad) / (height + flat) >= ratio, in exact arithmetic over the
\* value of the f32 ratio.
WidthReaches(w_pad) ==
    LET k == 0 - TargetRatio.e
        n == call.height + call.padding
    IN  call.width + w_pad >=
            MulShr(TargetRatio.m, n, k)
                + (IF MulShrExact(TargetRatio.m, n, k) THEN 0 ELSE 1)

\* (width + flat) / (height + h_pad) <= ratio, likewise.
HeightReaches(h_pad) ==
    LET k == 0 - TargetRatio.e
    IN  MulShr(TargetRatio.m, call.height + h_pad, k) >= call.width + call.padding

\* The smallest w_pad with (width + w_pad) / (height + flat) >= ratio.
SmallestWidthPad ==
    CHOOSE x \in 0..((MaxRatio + 1) * (100 + MaxPadding)) :
        WidthReaches(x) /\ (x = 0 \/ ~WidthReaches(x - 1))

\* The smallest h_pad with (width + flat) / (height + h_pad) <= ratio.
SmallestHeightPad ==
    CHOOSE x \in 0..((MaxRatio + 1) * (100 + MaxPadding)) :
        HeightReaches(x) /\ (x = 0 \/ ~HeightReaches(x - 1))

\* C12: with the target ratio equal to the content ratio both paddings are the
\* flat padding; with a larger target ratio the height padding is the flat
\* padding and the width padding is the smallest that reaches the ratio; with
\* a smaller one the width padding is flat and the height padding grows.
C12_AspectPadding ==
    call.name = "padding" =>
        /\ ret.tag = "ok"
        /\ ret = IF RatioLarger THEN Paddings(SmallestWidthPad, call.padding)
                 ELSE IF RatioSmaller THEN Paddings(call.padding, SmallestHeightPad)
                 ELSE Paddings(call.padding, call.padding)

\* C13: both paddings are at least the flat padding, and the unsigned
\* arithmetic neither panics nor wraps around.
C13_PaddingAtLeastFlat ==
    call.name = "padding" =>
        /\ ret.tag = "ok"
        /\ ret.horizontal_pad >= call.padding
        /\ ret.vertical_pad >= call.padding

(***************************************************************************)
(* Properties of Image (SpecImageSeq).                                     *)
(***************************************************************************)
\* C17: an Image has data.len() = width * height * 4 when it is constructed
\* and after every draw_img, mask, overlay and set_color on it, and its width
\* and height stay those it was constructed with.
C17_DataLenIsFourPerPixel ==
    op.name \notin {"none", "panicked"} =>
        /\ Len(image.data) = image.width * image.height * 4
        /\ image.width = op.width
        /\ image.height = op.height

\* An image of several pixels has been changed by MaxOps calls, the last a
\* set_color.
C17_Witness ==
    /\ op.name = "set_color" /\ op.steps = MaxOps
    /\ image # before
    /\ image.width * image.height > 1

(***************************************************************************)
(* Properties of the loop of make_image (SpecCalls).                       *)
(***************************************************************************)
\* The number of elements of the sequence that satisfy Test.
Count(seq, Test(_)) == Cardinality({i \in 1..Len(seq) : Test(seq[i])})

Runs == 1..Len(call.texts)

\* C18: each distinct (family, variant) of the runs of an Operation is
\* resolved exactly once, and runs with the same pair have the same font
\* index, which is the index of that pair.
C18_EachFaceResolvedOnce ==
    call.name = "make_image" =>
        /\ Len(ret.got) = Len(ret.fonts)
        /\ \A i \in Runs :
            LET face == FontFace_of(call.texts[i])
                IsFace(f) == f = face
                Resolves(g) == unwrap_or(g.font, "") = face.typeface /\ g.variant = face.variant
            IN  /\ Count(ret.fonts, IsFace) = 1
                /\ Count(ret.got, Resolves) = 1
                /\ ret.fonts[ret.index[i] + 1] = face
        /\ \A i \in Runs, j \in Runs :
            FontFace_of(call.texts[i]) = FontFace_of(call.texts[j])
                => ret.index[i] = ret.index[j]

\* Three runs with text, the first and the last of one face and the second of
\* another, were rendered.
C18_Witness ==
    /\ call.name = "make_image" /\ Len(call.texts) = 3
    /\ \A i \in Runs : call.texts[i].text # ""
    /\ FontFace_of(call.texts[1]) = FontFace_of(call.texts[3])
    /\ FontFace_of(call.texts[1]) # FontFace_of(call.texts[2])
    /\ call.texts[1].font # None
    /\ Len(ret.layout) = 3

\* The runs before run i that have text.
TextBefore(i) == Cardinality({j \in 1..(i - 1) : call.texts[j].text # ""})

\* C19: a run with empty text hands nothing to the layout, its face is
\* resolved all the same, and the loop runs to its end.
C19_EmptyRunResolvesFont ==
    call.name = "make_image" =>
        /\ Len(ret.index) = Len(call.texts)
        /\ Len(ret.layout) = TextBefore(Len(call.texts) + 1)
        /\ \A k \in 1..Len(ret.layout) : ret.layout[k].text # ""
        /\ \A i \in Runs :
            /\ call.texts[i].text # "" =>
                  ret.layout[TextBefore(i) + 1] =
                      [text |-> call.texts[i].text, font_index |-> ret.index[i]]
            /\ call.texts[i].text = "" =>
                  LET face == FontFace_of(call.texts[i])
                  IN  /\ \E k \in 1..Len(ret.fonts) : ret.fonts[k] = face
                      /\ \E k \in 1..Len(ret.got) :
                            /\ unwrap_or(ret.got[k].font, "") = face.typeface
                            /\ ret.got[k].variant = face.variant

\* An Operation ending in an empty run of a named face that no other run has
\* was rendered.
C19_Witness ==
    /\ call.name = "make_image" /\ Len(call.texts) > 1
    /\ call.texts[Len(call.texts)].text = ""
    /\ call.texts[Len(call.texts)].font = Some("Lato")
    /\ \A i \in 1..(Len(call.texts) - 1) :
        /\ call.texts[i].text # ""
        /\ FontFace_of(call.texts[i]) # FontFace_of(call.texts[Len(call.texts)])

(***************************************************************************)
(* Properties of the startup scan (SpecCalls).                             *)
(***************************************************************************)
\* A file name read as family, '-', weight, ' ', style, with or without an
\* extension: Some of the family and the variant, None when it does not parse.
ParsedName(fname) ==
    LET stem == file_stem(fname)
        dash == rfind(stem, "-")
        variant == FontVariant_parse(SubSeq(stem, dash + 1, Len(stem)))
    IN  IF to_str(stem) = None \/ dash = 0 \/ variant = None THEN None
        ELSE Some([family |-> SubSeq(stem, 1, dash - 1), variant |-> variant[1]])

\* The index holds `fname` under (family, variant).
IndexedAs(fonts, fname, family_name, variant) ==
    \E i \in 1..Len(fonts) :
        /\ fonts[i].face = family_name
        /\ \E k \in 1..Len(fonts[i].variants) :
            fonts[i].variants[k] = <<variant, fname>>

\* C20: the scan of the cache directory completes; a regular file whose name
\* parses is indexed under the parsed family and variant, and nothing else is
\* in the index.
C20_ScanCompletes ==
    call.name = "populate" =>
        /\ ret.tag = "ok"
        /\ \A fname \in DOMAIN call.dir :
            (ParsedName(fname) # None /\ call.dir[fname].kind = "file") =>
                IndexedAs(ret.fonts, fname, ParsedName(fname)[1].family,
                          ParsedName(fname)[1].variant)
        /\ \A i \in 1..Len(ret.fonts) : \A k \in 1..Len(ret.fonts[i].variants) :
            LET fname == ret.fonts[i].variants[k][2] IN
            /\ fname \in DOMAIN call.dir
            /\ call.dir[fname].kind = "file"
            /\ ParsedName(fname) =
                  Some([family |-> ret.fonts[i].face,
                        variant |-> ret.fonts[i].variants[k][1]])

(***************************************************************************)
(* Properties of Color (SpecCalls).                                        *)
(***************************************************************************)
\* The conventional (r, g, b, a) of each named colour.
Conventional(name) ==
    CASE name = "TRANSPARENT" -> <<0, 0, 0, 0>>
      [] name = "BLACK" -> <<0, 0, 0, 255>>
      [] name = "RED" -> <<255, 0, 0, 255>>
      [] name = "GREEN" -> <<0, 255, 0, 255>>
      [] name = "BLUE" -> <<0, 0, 255, 255>>
      [] name = "YELLOW" -> <<255, 255, 0, 255>>
      [] name = "FUCHSIA" -> <<255, 0, 255, 255>>
      [] name = "AQUA" -> <<0, 255, 255, 255>>
      [] name = "WHITE" -> <<255, 255, 255, 255>>

\* C21: in every crate that defines Color, each named colour constant holds
\* its conventional red, green, blue and alpha.
C21_NamedColoursConventional ==
    call.name = "color_const" =>
        <<ret.r, ret.g, ret.b, ret.a>> = Conventional(call.constant)

(***************************************************************************)
(* Properties of FontWeight and FontStyle parsing (SpecCalls).             *)
(***************************************************************************)
\* C22: every spelling of a weight or style name, whatever its case, parses
\* to what its lower-case spelling parses to.
C22_ParsingIgnoresCase ==
    call.name = "parse_name" =>
        /\ ret.weight = FontWeight_from_str(lowercase(call.s))
        /\ ret.style = FontStyle_from_str(lowercase(call.s))

(***************************************************************************)
(* Properties of patterned glyphs (SpecCalls).                             *)
(***************************************************************************)
\* C24: each pixel of the glyph image of a patterned run has the red, green
\* and blue of the pattern at the canvas coordinate where draw_img puts that
\* pixel, whatever the glyph position.
C24_PatternAtCanvasCoordinate ==
    call.name = "glyph" =>
        \A px \in 0..(call.width - 1), py \in 0..(call.height - 1) :
            LET at == Stripes_color_at(Flag, ret.x + px, ret.y + py)
                got == Pixel(ret.glyph, px, py)
            IN  <<got[1], got[2], got[3]>> = <<at.r, at.g, at.b>>

(***************************************************************************)
(* Properties of the configuration (SpecCalls).                            *)
(***************************************************************************)
\* The text before "://" in a hostname that has one.
SchemeOf(string) == SubSeq(string, 1, unwrap(str_find(string, ":")))
HasScheme(string) ==
    /\ str_find(string, ":") # None
    /\ strip_prefix(SubSeq(string, Len(SchemeOf(string)) + 1, Len(string)),
                    <<":", "/", "/">>) # None

\* C26: a hostname with a scheme is accepted only when the scheme is exactly
\* "http" or "https"; with any other text before "://" the result is
\* InvalidScheme.
C26_OnlyHttpAndHttps ==
    (call.name = "parse_hostname" /\ HasScheme(call.string))
        => IF SchemeOf(call.string) \in {http, https}
           THEN ret.tag = "Ok" /\ ret.scheme = Some(SchemeOf(call.string))
           ELSE ret = [tag |-> "InvalidScheme", scheme |-> SchemeOf(call.string)]

(***************************************************************************)
(* Properties of the query parameters (SpecQuery).                         *)
(***************************************************************************)
\* The positions of the `text` parameters applied so far, in order, and the
\* number of parameters applied before run i was closed (all of them for the
\* run still open).
TextPositions == {i \in 1..Len(call.applied) : call.applied[i].key = "text"}
ClosedAt(i) ==
    IF i > Cardinality(TextPositions) THEN Len(call.applied)
    ELSE CHOOSE p \in TextPositions : Cardinality({q \in TextPositions : q <= p}) = i

\* The last parameter among the first n applied that satisfies Sets, or 0.
LastOf(n, Sets(_)) ==
    LET at == {p \in 1..n : Sets(call.applied[p])} IN
    IF at = {} THEN 0 ELSE CHOOSE p \in at : \A q \in at : q <= p

IsFont(parameter) == parameter.key = "font"
IsWeight(parameter) == parameter.key \in {"weight", "fontweight"}
IsStyle(parameter) == parameter.key \in {"style", "fontstyle"}
IsSize(parameter) == parameter.key \in {"fs", "fontsize"}
IsColour(parameter) ==
    \/ parameter.key \in {"c", "color", "colour"}
    \/ parameter.key = "pattern" /\ Operation_pattern(Text_default, parameter.value) # None

\* What run i holds when every attribute is the one set last before the run
\* was closed, and the default when none was set.
SizeAt(n) ==
    LET p == LastOf(n, IsSize) IN
    IF p = 0 THEN Text_default.fontsize
    ELSE unwrap_or(parse_number(call.applied[p].value), Text_default.fontsize)

ColourAt(n) ==
    LET p == LastOf(n, IsColour) IN
    IF p = 0 THEN Text_default.visual
    ELSE IF call.applied[p].key = "pattern"
    THEN unwrap(Operation_pattern([Text_default EXCEPT !.fontsize = SizeAt(p)],
                                  call.applied[p].value))
    ELSE VisualColor(color_or(Some(call.applied[p].value), Color_const("textual", "WHITE")))

CarriedOver(i) ==
    LET n == ClosedAt(i)
        f == LastOf(n, IsFont)
        w == LastOf(n, IsWeight)
        s == LastOf(n, IsStyle)
        run == ret.texts[i]
    IN  /\ run.font = IF f = 0 THEN None ELSE Some(call.applied[f].value)
        /\ run.font_weight = IF w = 0 THEN None
                             ELSE Parsed(FontWeight_from_str(call.applied[w].value))
        /\ run.font_style = IF s = 0 THEN None
                            ELSE Parsed(FontStyle_from_str(call.applied[s].value))
        /\ run.fontsize = SizeAt(n)
        /\ run.visual = ColourAt(n)

\* C27: after any sequence of parameters applied to Operation::default(),
\* texts is not empty (so last_mut().unwrap() does not panic), its last run
\* has empty text, there is one run more than `text` parameters applied, run
\* i has the text of the i-th `text` parameter, and each run has the font,
\* weight, style, size and colour that were set last before its `text`
\* parameter.
C27_RunsCarryAttributes ==
    call.name = "from_query" =>
        /\ ~IsPanic(ret)
        /\ ret.texts # <<>>
        /\ ret.texts[Len(ret.texts)].text = <<>>
        /\ Len(ret.texts) = 1 + Cardinality(TextPositions)
        /\ \A i \in 1..Cardinality(TextPositions) :
               ret.texts[i].text = call.applied[ClosedAt(i)].value
        /\ \A i \in 1..Len(ret.texts) : CarriedOver(i)

\* A size set between two `text` parameters: the first run keeps the default,
\* the second run and the open run have the new size.
C27_Witness ==
    /\ call.name = "from_query"
    /\ Len(ret.texts) = 3
    /\ ret.texts[1].text # <<>> /\ ret.texts[2].text # <<>>
    /\ ret.texts[1].fontsize = Text_default.fontsize
    /\ ret.texts[2].fontsize = 4
    /\ ret.texts[3].fontsize = 4

\* The patterns an Operation holds: those of its runs and of its background.
Patterns(operation) ==
    {operation.texts[i].visual.stripes :
        i \in {j \in 1..Len(operation.texts) : operation.texts[j].visual.tag = "Pattern"}}
    \cup (IF operation.bvisual.tag = "Pattern" THEN {operation.bvisual.stripes} ELSE {})

\* C30: every Stripes pattern that Operation::pattern builds, at any font
\* size in effect when `pattern` or `bpattern` is applied, has a stripe_width
\* of at least 1, and color_at returns one of its colours at every pixel.
C30_StripesAtLeastOneWide ==
    call.name = "from_query" =>
        \A stripes \in Patterns(ret) :
            /\ stripes.stripe_width >= 1
            /\ \A x \in 0..MaxDim, y \in 0..MaxDim :
                   /\ ~IsPanic(color_at(stripes, x, y))
                   /\ \E i \in 1..Len(stripes.colors) :
                          color_at(stripes, x, y) = stripes.colors[i]

(***************************************************************************)
(* Properties of cache file names (SpecCalls).                             *)
(***************************************************************************)
\* C28: the file name save_font writes for (family, variant) is read back by
\* populate as the same family and variant, whatever the family name holds,
\* so that after a restart the lookup of the pair is a cache hit.
C28_FileNameRoundTrips ==
    call.name = "save_restart" =>
        /\ ret.tag = "ok"
        /\ IndexedAs(ret.fonts, save_font_fname(call.family, call.variant),
                     call.family, call.variant)
        /\ indexed(ret.fonts, call.family, call.variant)
        /\ cache_variant(ret.fonts,
                         (save_font_fname(call.family, call.variant)
                             :> File(remote("https://fonts/lato-regular"))) @@ call.dir,
                         "textual", call.family, call.variant).tag = "Some"

\* A family name with a '-' and a space came back from the scan.
C28_Witness ==
    /\ call.name = "save_restart"
    /\ \E i, j \in 1..Len(call.family) : call.family[i] = "-" /\ call.family[j] = " "
    /\ call.dir # EmptyDir
    /\ ret.tag = "ok"
    /\ indexed(ret.fonts, call.family, call.variant)

====
